---- MODULE Spec2Model ----
(***************************************************************************)
(* ezwhisper: push-to-talk dictation.  Two front ends share one design:    *)
(*   cli   : src/src/main.rs  with the rdev listener  src/src/input.rs     *)
(*   tauri : src/src-tauri/src/lib.rs with the CGEventTap listener         *)
(*           src/src-tauri/src/input.rs and src/src-tauri/src/audio.rs     *)
(* The module holds three specifications over one set of variables:        *)
(*   SpecInput : a listener alone, fed arbitrary raw signals               *)
(*   SpecAudio : AudioRecorder's operations interleaved with the callback  *)
(*   Spec      : listener + queue + control loop + recorder + callback     *)
(***************************************************************************)
EXTENDS Integers, Sequences, FiniteSets, TLC

VARIABLES
    app,                \* "cli" | "tauri": which front end runs
    is_pressed,         \* rdev listener latch (src/src/input.rs:36)
    IS_PRESSED,         \* CGEventTap mouse latch (src-tauri/src/input.rs:107)
    RIGHT_OPT_PRESSED,  \* CGEventTap right-Option latch (input.rs:108)
    queue,              \* mpsc channel contents: events sent, not yet received
    gest,               \* history: the raw-signal gesture in progress
    activations,        \* history: activate-only signals so far, -1 once another signal came
    running,            \* the loop's run flag (main.rs:40, lib.rs:45)
    hasRecorder,        \* recorder is Some (lib.rs:232-239)
    status,             \* Session State: main.rs `state` / lib.rs `status`
    published,          \* last status given to the UI (menubar / AppState.status)
    pubs,               \* history: the status shown before the latest handler that
                        \* published, then what that handler published, in order
    pc,                 \* where the control loop is
    text,               \* the transcript carried through one cycle
    reported,           \* failures logged at startup and by the latest handler
    handled,            \* history: what the latest try_recv() found and the state it met
    listening,          \* the listener thread has its OS hook and runs
    config,             \* AppState.config (tauri) / Config::from_env() (cli)
    cfg,                \* the settings the cycle works with
    calls,              \* history: the service calls of the latest session
    armed,              \* AudioRecorder.is_recording
    samples,            \* AudioRecorder.samples, each entry tagged with its session
    lock,               \* holder of the samples mutex
    cbPc,               \* where the audio callback is
    cbData,             \* the buffer the callback was invoked with
    recPc,              \* where a recorder operation is (SpecAudio)
    snap,               \* stop()'s local copy of the samples
    clip,               \* what the last stop() returned
    stream,             \* AudioRecorder.stream / sample_rate / channels
    sess,               \* history: sessions started so far
    steps,              \* history: the steps of insert() so far, with their outcome
    log,                \* history, kept in SpecQueue: the events sent and the events
                        \* received, in order
    logs                \* AppState.logs and what uses it (SpecLog)

inputVars == <<is_pressed, IS_PRESSED, RIGHT_OPT_PRESSED, queue, gest, activations>>
loopVars == <<running, hasRecorder, status, published, pubs, pc, text, reported, handled,
              listening, config, cfg, calls>>
audioVars == <<armed, samples, lock, cbPc, cbData, recPc, snap, clip, stream, sess>>
vars == <<app, inputVars, loopVars, audioVars, steps, log, logs>>

-----------------------------------------------------------------------------
(* Bounds *)
MaxEmit == 6     \* events a listener sends in SpecInput
MaxSamples == 1  \* callback buffers held in the Sample Buffer
MaxSessions == 3 \* recording sessions started in SpecAudio
MaxStreams == 1  \* device switches in SpecAudio
MaxLogged == 102   \* add_log calls in SpecLog
MaxQueue == 1    \* events waiting in the channel in Spec
MaxBuffered == 2 \* callback buffers held in the Sample Buffer in SpecShared
MaxSent == 4     \* events a listener sends in SpecQueue
MaxBacklog == 2  \* events waiting in the channel in SpecQueue

-----------------------------------------------------------------------------
(* InputEvent, src/src/input.rs:6-10 and src-tauri/src/input.rs:5-9 *)
TriggerPressed == "TriggerPressed"
TriggerReleased == "TriggerReleased"
InputEvent == {TriggerPressed, TriggerReleased}

\* One queued event.  busy is history: the send happened while the control
\* loop was inside a transcription round trip.
Msg(ev, busy) == [ev |-> ev, busy |-> busy]

Evs(q) == [i \in 1..Len(q) |-> q[i].ev]

(***************************************************************************)
(* rdev listener, src/src/input.rs run_listener                            *)
(***************************************************************************)
RawButtons == 1..8                      \* rdev::Button::Unknown(n)
RdevTriggerButtons == {3, 4, 5, 6, 8}
RawKeys == {"AltGr", "Unknown65535", "KeyA", "Other"}
RdevSignals ==
    [type : {"ButtonPress", "ButtonRelease"}, code : RawButtons]
      \cup [type : {"KeyPress", "KeyRelease"}, code : RawKeys]

Keep(pressed) == [pressed |-> pressed, out |-> <<>>]

\* The arm as it would be without the !is_pressed test.
RdevButtonPressNoLatch(button, pressed) ==
    IF button \in RdevTriggerButtons
    THEN [pressed |-> TRUE, out |-> <<TriggerPressed>>]
    ELSE Keep(pressed)

\* EventType::ButtonPress(button)
RdevButtonPress(button, pressed) ==
    IF button \in RdevTriggerButtons /\ ~pressed
    THEN [pressed |-> TRUE, out |-> <<TriggerPressed>>]
    ELSE Keep(pressed)

\* EventType::ButtonRelease(button)
RdevButtonRelease(button, pressed) ==
    IF button \in RdevTriggerButtons /\ pressed
    THEN [pressed |-> FALSE, out |-> <<TriggerReleased>>]
    ELSE Keep(pressed)

\* The arm as it would be if a trigger key always meant "pressed".
RdevKeyPressNoToggle(key, pressed) ==
    IF key \in {"AltGr", "Unknown65535"}
    THEN IF pressed
         THEN Keep(pressed)
         ELSE [pressed |-> TRUE, out |-> <<TriggerPressed>>]
    ELSE IF key = "KeyA" /\ pressed
         THEN [pressed |-> FALSE, out |-> <<TriggerReleased>>]
         ELSE Keep(pressed)

\* EventType::KeyPress(key)
RdevKeyPress(key, pressed) ==
    IF key \in {"AltGr", "Unknown65535"}
    THEN IF pressed
         THEN [pressed |-> FALSE, out |-> <<TriggerReleased>>]
         ELSE [pressed |-> TRUE, out |-> <<TriggerPressed>>]
    ELSE IF key = "KeyA" /\ pressed
         THEN [pressed |-> FALSE, out |-> <<TriggerReleased>>]
         ELSE Keep(pressed)

\* EventType::KeyRelease(key): two ifs in sequence, the second reads the
\* latch the first left.
RdevKeyRelease(key, pressed) ==
    LET a == IF key = "AltGr" /\ pressed
             THEN [pressed |-> FALSE, out |-> <<TriggerReleased>>]
             ELSE Keep(pressed)
    IN IF key = "Unknown65535" /\ a.pressed
       THEN [pressed |-> FALSE, out |-> a.out \o <<TriggerReleased>>]
       ELSE a

\* The closure given to listen(): the latch after the signal and the events sent.
RdevListener(sig, pressed) ==
    CASE sig.type = "ButtonPress" -> RdevButtonPress(sig.code, pressed)
      [] sig.type = "ButtonRelease" -> RdevButtonRelease(sig.code, pressed)
      [] sig.type = "KeyPress" -> RdevKeyPress(sig.code, pressed)
      [] sig.type = "KeyRelease" -> RdevKeyRelease(sig.code, pressed)

(***************************************************************************)
(* CGEventTap listener, src/src-tauri/src/input.rs macos::callback         *)
(***************************************************************************)
LOGITECH_GESTURE_KEYCODE == 65535
TRIGGER_MOUSE_BUTTONS == {3, 4, 5, 6, 8}
KEY_DOWN == 10
KEY_UP == 11
FLAGS_CHANGED == 12
OTHER_MOUSE_DOWN == 25
OTHER_MOUSE_UP == 26
FLAG_MASK_ALTERNATE == 524288     \* 0x00080000
FLAG_MASK_RIGHT_ALT == 64         \* 0x00000040

\* flags & mask != 0, for a one-bit mask
FlagSet(flags, mask) == (flags \div mask) % 2 = 1

RawKeycodes == {LOGITECH_GESTURE_KEYCODE, 0, 61}
RawFlags == {0, FLAG_MASK_RIGHT_ALT, FLAG_MASK_ALTERNATE,
             FLAG_MASK_ALTERNATE + FLAG_MASK_RIGHT_ALT,
             FLAG_MASK_ALTERNATE + 32}
CgSignals ==
    [type : {KEY_DOWN, KEY_UP}, arg : RawKeycodes]
      \cup [type : {FLAGS_CHANGED}, arg : RawFlags]
      \cup [type : {OTHER_MOUSE_DOWN, OTHER_MOUSE_UP}, arg : 2..8]

CgKeep(isp, rop) == [isp |-> isp, rop |-> rop, out |-> <<>>]

\* KEY_DOWN: sends on every key down of the gesture keycode, no latch.
CgKeyDown(keycode, isp, rop) ==
    IF keycode = LOGITECH_GESTURE_KEYCODE
    THEN [isp |-> isp, rop |-> rop, out |-> <<TriggerPressed>>]
    ELSE CgKeep(isp, rop)

\* KEY_UP: logged only.
CgKeyUp(keycode, isp, rop) == CgKeep(isp, rop)

\* FLAGS_CHANGED: right Option down sends TriggerPressed; its release only
\* clears the latch.
CgFlagsChanged(flags, isp, rop) ==
    LET right_opt_down == FlagSet(flags, FLAG_MASK_ALTERNATE)
                            /\ FlagSet(flags, FLAG_MASK_RIGHT_ALT)
    IN IF right_opt_down /\ ~rop
       THEN [isp |-> isp, rop |-> TRUE, out |-> <<TriggerPressed>>]
       ELSE IF ~right_opt_down /\ rop
       THEN [isp |-> isp, rop |-> FALSE, out |-> <<>>]
       ELSE CgKeep(isp, rop)

\* The arm as it would be without the !IS_PRESSED test.
CgMouseDownNoLatch(button, isp, rop) ==
    IF button \in TRIGGER_MOUSE_BUTTONS
    THEN [isp |-> TRUE, rop |-> rop, out |-> <<TriggerPressed>>]
    ELSE CgKeep(isp, rop)

\* OTHER_MOUSE_DOWN
CgMouseDown(button, isp, rop) ==
    IF button \in TRIGGER_MOUSE_BUTTONS /\ ~isp
    THEN [isp |-> TRUE, rop |-> rop, out |-> <<TriggerPressed>>]
    ELSE CgKeep(isp, rop)

\* The arm as it would be without the IS_PRESSED test.
CgMouseUpNoLatch(button, isp, rop) ==
    IF button \in TRIGGER_MOUSE_BUTTONS
    THEN [isp |-> FALSE, rop |-> rop, out |-> <<TriggerReleased>>]
    ELSE CgKeep(isp, rop)

\* OTHER_MOUSE_UP
CgMouseUp(button, isp, rop) ==
    IF button \in TRIGGER_MOUSE_BUTTONS /\ isp
    THEN [isp |-> FALSE, rop |-> rop, out |-> <<TriggerReleased>>]
    ELSE CgKeep(isp, rop)

\* callback(): the two latches after the signal and the events sent.
CgCallback(sig, isp, rop) ==
    CASE sig.type = KEY_DOWN -> CgKeyDown(sig.arg, isp, rop)
      [] sig.type = KEY_UP -> CgKeyUp(sig.arg, isp, rop)
      [] sig.type = FLAGS_CHANGED -> CgFlagsChanged(sig.arg, isp, rop)
      [] sig.type = OTHER_MOUSE_DOWN -> CgMouseDown(sig.arg, isp, rop)
      [] sig.type = OTHER_MOUSE_UP -> CgMouseUp(sig.arg, isp, rop)

(***************************************************************************)
(* AudioRecorder, src/src-tauri/src/audio.rs.  One entry of samples stands *)
(* for the buffer of one callback invocation; its value is the number of   *)
(* the session that was running when the device delivered it.              *)
(***************************************************************************)
Devices == {1, 2}

\* The storage the recorder owns and shares with its callbacks.
SelfSamples == "self.samples"
SelfFlag == "self.is_recording"

\* build_stream as it would be if it gave the callback storage of its own.
BuiltStreamOwnStorage(gen, dev) ==
    [gen |-> gen, dev |-> dev,
     sample_rate |-> IF dev = 1 THEN 48000 ELSE 44100,
     channels |-> dev,
     samples_c |-> <<"stream", gen>>,
     is_rec_c |-> <<"stream", gen>>]

\* build_stream's Ok value: the playing stream with the device's default
\* rate and channel count; its callback owns clones of the two Arcs it was
\* given, which new() and set_device() take from self.
BuiltStream(gen, dev) ==
    [gen |-> gen, dev |-> dev,
     sample_rate |-> IF dev = 1 THEN 48000 ELSE 44100,
     channels |-> dev,
     samples_c |-> SelfSamples,
     is_rec_c |-> SelfFlag]

\* encode_wav: a header, then one 16-bit value per sample, in order.
EncodeWav(s) == <<"RIFF">> \o s

\* stop() as it would be without the is_empty() test: every copy is encoded.
StopResultsAlwaysEncodes(s, session) ==
    {[ok |-> TRUE, data |-> EncodeWav(s), of |-> session],
     [ok |-> FALSE, data |-> <<>>, of |-> session]}

\* stop() after the copy: empty samples give Ok(Vec::new()), otherwise the
\* encoded clip, or the encoder's error.
StopResults(s, session) ==
    IF s = <<>>
    THEN {[ok |-> TRUE, data |-> <<>>, of |-> session]}
    ELSE {[ok |-> TRUE, data |-> EncodeWav(s), of |-> session],
          [ok |-> FALSE, data |-> <<>>, of |-> session]}

\* The input callback, first half: is_rec_c.load().  The device hands over a
\* buffer; it is kept only if the flag reads true.
CbTest ==
    /\ cbPc = "idle"
    /\ Len(samples) < MaxSamples
    /\ IF stream.is_rec_c = SelfFlag /\ armed
       THEN cbPc' = "wantLock" /\ cbData' = sess
       ELSE UNCHANGED <<cbPc, cbData>>
    /\ UNCHANGED <<armed, samples, lock, recPc, snap, clip, stream, sess>>
    /\ UNCHANGED <<log, steps, app, logs, inputVars, loopVars>>

\* The same step where the device may deliver up to MaxBuffered buffers.
CbTestMore ==
    /\ cbPc = "idle"
    /\ Len(samples) < MaxBuffered
    /\ IF stream.is_rec_c = SelfFlag /\ armed
       THEN cbPc' = "wantLock" /\ cbData' = sess
       ELSE UNCHANGED <<cbPc, cbData>>
    /\ UNCHANGED <<armed, samples, lock, recPc, snap, clip, stream, sess>>
    /\ UNCHANGED <<log, steps, app, logs, inputVars, loopVars>>

\* The callback as it would be if it replaced the contents of the buffer.
CbAppendReplaces ==
    /\ cbPc = "wantLock"
    /\ lock = "none"
    /\ samples' = IF stream.samples_c = SelfSamples
                  THEN <<cbData>>
                  ELSE samples
    /\ cbPc' = "idle"
    /\ UNCHANGED <<armed, lock, cbData, recPc, snap, clip, stream, sess>>
    /\ UNCHANGED <<log, steps, app, logs, inputVars, loopVars>>

\* The input callback, second half: samples_c.lock(), extend, unlock.
CbAppend ==
    /\ cbPc = "wantLock"
    /\ lock = "none"
    /\ samples' = IF stream.samples_c = SelfSamples
                  THEN Append(samples, cbData)
                  ELSE samples
    /\ cbPc' = "idle"
    /\ UNCHANGED <<armed, lock, cbData, recPc, snap, clip, stream, sess>>
    /\ UNCHANGED <<log, steps, app, logs, inputVars, loopVars>>

\* start() as it would be without the test of is_recording.
AStartCallNoArmedTest ==
    /\ recPc = "idle"
    /\ sess < MaxSessions
    /\ recPc' = "start_lock"
    /\ UNCHANGED <<armed, samples, lock, cbPc, cbData, snap, clip, stream, sess>>
    /\ UNCHANGED <<log, steps, app, logs, inputVars, loopVars>>

\* start(): if is_recording.load() { return Ok(()) }
AStartCall ==
    /\ recPc = "idle"
    /\ sess < MaxSessions
    /\ recPc' = IF armed THEN "start_ret" ELSE "start_lock"
    /\ UNCHANGED <<armed, samples, lock, cbPc, cbData, snap, clip, stream, sess>>
    /\ UNCHANGED <<log, steps, app, logs, inputVars, loopVars>>

\* start(): self.samples.lock()
AStartLock ==
    /\ recPc = "start_lock"
    /\ lock = "none"
    /\ lock' = "rec"
    /\ recPc' = "start_clear"
    /\ UNCHANGED <<armed, samples, cbPc, cbData, snap, clip, stream, sess>>
    /\ UNCHANGED <<log, steps, app, logs, inputVars, loopVars>>

\* start(): samples.clear(), guard dropped
AStartClear ==
    /\ recPc = "start_clear"
    /\ samples' = <<>>
    /\ lock' = "none"
    /\ recPc' = "start_store"
    /\ UNCHANGED <<armed, cbPc, cbData, snap, clip, stream, sess>>
    /\ UNCHANGED <<log, steps, app, logs, inputVars, loopVars>>

\* start(): return Ok(()) of the armed case, audio.rs:163
AStartReturn ==
    /\ recPc = "start_ret"
    /\ recPc' = "idle"
    /\ UNCHANGED <<armed, samples, lock, cbPc, cbData, snap, clip, stream, sess>>
    /\ UNCHANGED <<log, steps, app, logs, inputVars, loopVars>>

\* start(): is_recording.store(true); Ok(())
AStartStore ==
    /\ recPc = "start_store"
    /\ armed' = TRUE
    /\ sess' = sess + 1
    /\ recPc' = "idle"
    /\ UNCHANGED <<samples, lock, cbPc, cbData, snap, clip, stream>>
    /\ UNCHANGED <<log, steps, app, logs, inputVars, loopVars>>

\* stop(): is_recording.store(false)
AStopCall ==
    /\ recPc = "idle"
    /\ armed' = FALSE
    /\ recPc' = "stop_lock"
    /\ UNCHANGED <<samples, lock, cbPc, cbData, snap, clip, stream, sess>>
    /\ UNCHANGED <<log, steps, app, logs, inputVars, loopVars>>

\* stop(): self.samples.lock()
AStopLock ==
    /\ recPc = "stop_lock"
    /\ lock = "none"
    /\ lock' = "rec"
    /\ recPc' = "stop_clone"
    /\ UNCHANGED <<armed, samples, cbPc, cbData, snap, clip, stream, sess>>
    /\ UNCHANGED <<log, steps, app, logs, inputVars, loopVars>>

\* stop() as it would be if the guard lived to the end of the function and
\* beyond: the copy is made, the mutex stays held.
AStopCloneKeepsGuard ==
    /\ recPc = "stop_clone"
    /\ snap' = samples
    /\ recPc' = "stop_encode"
    /\ UNCHANGED <<armed, samples, lock, cbPc, cbData, clip, stream, sess>>
    /\ UNCHANGED <<log, steps, app, logs, inputVars, loopVars>>

\* stop(): samples.clone(), guard dropped
AStopClone ==
    /\ recPc = "stop_clone"
    /\ snap' = samples
    /\ lock' = "none"
    /\ recPc' = "stop_encode"
    /\ UNCHANGED <<armed, samples, cbPc, cbData, clip, stream, sess>>
    /\ UNCHANGED <<log, steps, app, logs, inputVars, loopVars>>

\* stop(): the empty test, encode_wav, return
AStopReturn ==
    /\ recPc = "stop_encode"
    /\ clip' \in StopResults(snap, sess)
    /\ recPc' = "idle"
    /\ UNCHANGED <<armed, samples, lock, cbPc, cbData, snap, stream, sess>>
    /\ UNCHANGED <<log, steps, app, logs, inputVars, loopVars>>

\* set_device() as it would be if it stored false only once the stream is
\* built.
ASetDeviceCallKeepsFlag ==
    /\ recPc = "idle"
    /\ stream.gen < MaxStreams
    /\ recPc' = "setdev_build"
    /\ UNCHANGED <<armed, samples, lock, cbPc, cbData, snap, clip, stream, sess>>
    /\ UNCHANGED <<log, steps, app, logs, inputVars, loopVars>>

\* set_device(): is_recording.store(false)
ASetDeviceCall ==
    /\ recPc = "idle"
    /\ stream.gen < MaxStreams
    /\ armed' = FALSE
    /\ recPc' = "setdev_build"
    /\ UNCHANGED <<samples, lock, cbPc, cbData, snap, clip, stream, sess>>
    /\ UNCHANGED <<log, steps, app, logs, inputVars, loopVars>>

\* set_device(): build_stream(device, ...)?, then the three assignments
ASetDeviceBuild ==
    /\ recPc = "setdev_build"
    /\ \/ /\ \E dev \in Devices : stream' = BuiltStream(stream.gen + 1, dev)
          /\ recPc' = "idle"
       \/ /\ UNCHANGED stream
          /\ recPc' = "setdev_err"
    /\ UNCHANGED <<armed, samples, lock, cbPc, cbData, snap, clip, sess>>
    /\ UNCHANGED <<log, steps, app, logs, inputVars, loopVars>>

\* set_device(): the `?` of build_stream returns the error, audio.rs:145-146
ASetDeviceFailed ==
    /\ recPc = "setdev_err"
    /\ recPc' = "idle"
    /\ UNCHANGED <<armed, samples, lock, cbPc, cbData, snap, clip, stream, sess>>
    /\ UNCHANGED <<log, steps, app, logs, inputVars, loopVars>>

(***************************************************************************)
(* History of the raw signals: what one gesture is.  A gesture is a run of *)
(* trigger-down signals followed by a run of trigger-up signals.           *)
(***************************************************************************)
RdevDown(sig) ==
    \/ sig.type = "ButtonPress" /\ sig.code \in RdevTriggerButtons
    \/ sig.type = "KeyPress" /\ sig.code \in {"AltGr", "Unknown65535"}
RdevUp(sig) ==
    \/ sig.type = "ButtonRelease" /\ sig.code \in RdevTriggerButtons
    \/ sig.type = "KeyRelease" /\ sig.code \in {"AltGr", "Unknown65535"}
    \/ sig.type = "KeyPress" /\ sig.code = "KeyA"
RdevMouse(sig) == sig.type \in {"ButtonPress", "ButtonRelease"}
RdevActivate(sig) == sig.type = "KeyPress" /\ sig.code = "Unknown65535"

CgDown(sig) ==
    \/ sig.type = OTHER_MOUSE_DOWN /\ sig.arg \in TRIGGER_MOUSE_BUTTONS
    \/ sig.type = KEY_DOWN /\ sig.arg = LOGITECH_GESTURE_KEYCODE
    \/ sig.type = FLAGS_CHANGED /\ FlagSet(sig.arg, FLAG_MASK_ALTERNATE)
                                /\ FlagSet(sig.arg, FLAG_MASK_RIGHT_ALT)
CgUp(sig) ==
    \/ sig.type = OTHER_MOUSE_UP /\ sig.arg \in TRIGGER_MOUSE_BUTTONS
    \/ sig.type = KEY_UP /\ sig.arg = LOGITECH_GESTURE_KEYCODE
    \/ sig.type = FLAGS_CHANGED /\ ~(FlagSet(sig.arg, FLAG_MASK_ALTERNATE)
                                      /\ FlagSet(sig.arg, FLAG_MASK_RIGHT_ALT))
CgMouse(sig) == sig.type \in {OTHER_MOUSE_DOWN, OTHER_MOUSE_UP}
CgActivate(sig) == sig.type = KEY_DOWN /\ sig.arg = LOGITECH_GESTURE_KEYCODE

Count(ev, out) == Cardinality({i \in 1..Len(out) : out[i] = ev})

NoGesture == [phase |-> "none", mouseOnly |-> TRUE, clean |-> TRUE, p |-> 0, r |-> 0]

\* clean: no latch was set when the gesture's first signal arrived
GestStep(g, down, up, mouse, latchClear, out) ==
    IF down /\ g.phase # "down"
    THEN [phase |-> "down", mouseOnly |-> mouse, clean |-> latchClear,
          p |-> Count(TriggerPressed, out), r |-> Count(TriggerReleased, out)]
    ELSE IF (down /\ g.phase = "down") \/ (up /\ g.phase # "none")
    THEN [phase |-> IF up THEN "up" ELSE "down",
          mouseOnly |-> g.mouseOnly /\ mouse, clean |-> g.clean,
          p |-> g.p + Count(TriggerPressed, out),
          r |-> g.r + Count(TriggerReleased, out)]
    ELSE g

ActStep(n, isActivate) == IF isActivate /\ n >= 0 THEN n + 1 ELSE -1

\* A send as it would be on a rendezvous channel, whose receiver is not
\* receiving during a round trip: nothing gets into the queue then.
SendNeedsReceiver(q, out, busy) ==
    IF busy THEN q ELSE q \o [i \in 1..Len(out) |-> Msg(out[i], busy)]

\* Sender::send on the unbounded mpsc channel: never blocks, appends in order.
Send(q, out, busy) == q \o [i \in 1..Len(out) |-> Msg(out[i], busy)]

Busy == pc \in {"transcribe", "rewrite", "insert"}

(***************************************************************************)
(* The listener threads.  track: keep the raw-signal history (SpecInput).  *)
(***************************************************************************)
RdevEvent(sig, track) ==
    LET r == RdevListener(sig, is_pressed) IN
    /\ is_pressed' = r.pressed
    /\ queue' = Send(queue, r.out, Busy)
    /\ IF track
       THEN /\ gest' = GestStep(gest, RdevDown(sig), RdevUp(sig), RdevMouse(sig),
                                ~is_pressed, r.out)
            /\ activations' = ActStep(activations, RdevActivate(sig))
       ELSE UNCHANGED <<gest, activations>>
    /\ UNCHANGED <<IS_PRESSED, RIGHT_OPT_PRESSED>>

CgEvent(sig, track) ==
    LET r == CgCallback(sig, IS_PRESSED, RIGHT_OPT_PRESSED) IN
    /\ IS_PRESSED' = r.isp
    /\ RIGHT_OPT_PRESSED' = r.rop
    /\ queue' = Send(queue, r.out, Busy)
    /\ IF track
       THEN /\ gest' = GestStep(gest, CgDown(sig), CgUp(sig), CgMouse(sig),
                                ~IS_PRESSED /\ ~RIGHT_OPT_PRESSED, r.out)
            /\ activations' = ActStep(activations, CgActivate(sig))
       ELSE UNCHANGED <<gest, activations>>
    /\ UNCHANGED is_pressed

(***************************************************************************)
(* SpecInput: one listener, arbitrary raw signals, nothing receiving.      *)
(***************************************************************************)
\* AppState::new, lib.rs:136: logs: Mutex::new(VecDeque::new()).  q is the
\* deque, an entry being the number of the add_log call that pushed it; pc
\* is where add_log is while it holds the mutex; added counts the calls;
\* got is what the last get_logs returned.
NoLogs == [q |-> <<>>, pc |-> "idle", added |-> 0, got |-> <<>>]

\* The history of the channel: off, except in SpecQueue.
NoLog == [on |-> FALSE, sent |-> <<>>, got |-> <<>>]

\* The mpsc channel is unbounded; the model lets QueueCap events wait.
QueueCap == IF log.on THEN MaxBacklog ELSE MaxQueue

\* A listener step: what it appended to the channel is noted as sent.
LogSent ==
    /\ log.on => Len(log.sent) < MaxSent
    /\ log' = IF log.on
              THEN [log EXCEPT !.sent = @ \o SubSeq(queue', Len(queue) + 1, Len(queue'))]
              ELSE log

\* The loop's step with event e in hand: e is noted as received.
LogGot(e) == log' = IF log.on THEN [log EXCEPT !.got = Append(@, e)] ELSE log

InitInput ==
    /\ is_pressed = FALSE
    /\ IS_PRESSED = FALSE
    /\ RIGHT_OPT_PRESSED = FALSE
    /\ queue = <<>>
    /\ gest = NoGesture
    /\ activations = 0

\* The settings a cycle reads: config.translate, config.cleanup, whether
\* anthropic_api_key is set (lib.rs:296-300, main.rs:70-72), config.language
\* (lib.rs:293, main.rs:69) and config.auto_enter (lib.rs:322, main.rs:93).
Languages == {"auto", "pl"}
Configs ==
    [translate : BOOLEAN, cleanup : BOOLEAN, key : BOOLEAN,
     auto_enter : BOOLEAN, language : Languages]
NoRewrite ==
    [translate |-> FALSE, cleanup |-> FALSE, key |-> FALSE,
     auto_enter |-> TRUE, language |-> "auto"]

\* The settings with the language and the auto-Enter flag left at their
\* defaults: the loops of Spec do not branch on either.
RewriteConfigs ==
    {c \in Configs : c.auto_enter = NoRewrite.auto_enter
                      /\ c.language = NoRewrite.language}

InitLoopIdle ==
    /\ running = TRUE
    /\ hasRecorder = TRUE
    /\ status = "Idle"
    /\ published = "Idle"
    /\ pubs = <<"Idle">>
    /\ steps = <<>>
    /\ log = NoLog
    /\ logs = NoLogs
    /\ pc = "poll"
    /\ text = ""
    /\ reported = {}
    /\ handled = [ev |-> "none", was |-> "Idle"]
    /\ listening = TRUE
    /\ config = NoRewrite
    /\ cfg = NoRewrite
    /\ calls = <<>>

InitAudio ==
    /\ armed = FALSE
    /\ samples = <<>>
    /\ lock = "none"
    /\ cbPc = "idle"
    /\ cbData = 0
    /\ recPc = "idle"
    /\ snap = <<>>
    /\ clip = [ok |-> TRUE, data |-> <<>>, of |-> 0]
    /\ stream = BuiltStream(0, 1)
    /\ sess = 0

InputRdev ==
    /\ app = "cli"
    /\ Len(queue) < MaxEmit
    /\ \E sig \in RdevSignals : RdevEvent(sig, TRUE)
    /\ UNCHANGED <<log, steps, app, logs, loopVars, audioVars>>

InputCg ==
    /\ app = "tauri"
    /\ Len(queue) < MaxEmit
    /\ \E sig \in CgSignals : CgEvent(sig, TRUE)
    /\ UNCHANGED <<log, steps, app, logs, loopVars, audioVars>>

InitIn == app \in {"cli", "tauri"} /\ InitInput /\ InitLoopIdle /\ InitAudio
NextIn == InputRdev \/ InputCg
SpecInput == InitIn /\ [][NextIn]_vars

(***************************************************************************)
(* SpecAudio: the recorder as run_input_loop drives it (start() from Idle, *)
(* stop() from Recording, one call at a time) while the audio thread runs  *)
(* the callback.  SpecAudioApi: the owner calls start, stop and set_device *)
(* in any order.                                                           *)
(***************************************************************************)
InitA == app = "tauri" /\ InitInput /\ InitLoopIdle /\ InitAudio

\* lib.rs:265: rec.start() is reached only with status Idle
LoopStart == ~armed /\ AStartCall

\* lib.rs:287: rec.stop() is reached only with status Recording
LoopStop == armed /\ AStopCall

NextA ==
    \/ LoopStart \/ AStartLock \/ AStartClear \/ AStartStore
    \/ LoopStop \/ AStopLock \/ AStopClone \/ AStopReturn
    \/ CbTest \/ CbAppend
SpecAudio == InitA /\ [][NextA]_vars

NextApi ==
    \/ AStartCall \/ AStartLock \/ AStartClear \/ AStartStore \/ AStartReturn
    \/ AStopCall \/ AStopLock \/ AStopClone \/ AStopReturn
    \/ ASetDeviceCall \/ ASetDeviceBuild \/ ASetDeviceFailed
    \/ CbTest \/ CbAppend
SpecAudioApi == InitA /\ [][NextApi]_vars

(***************************************************************************)
(* The control loops: main (src/src/main.rs) and run_input_loop            *)
(* (src/src-tauri/src/lib.rs).  A handler runs as one step up to the point *)
(* where it blocks in rt.block_on or in insert(); the listener and the     *)
(* audio callback run on while it is blocked.  start() and stop() run as   *)
(* one step each here; SpecAudio has their interleaving with the callback. *)
(***************************************************************************)
Transcript == "hello world"
Rewritten == "Hello, world."

handlerVars == <<status, published, pubs, pc, text, reported, armed, samples, clip,
                 cfg, calls>>

\* The selection as it would be with the cleanup test first.
RewriteOpCleanupFirst(c) ==
    IF c.cleanup /\ c.key THEN "cleanup"
    ELSE IF c.translate /\ c.key THEN "translate"
    ELSE "none"

\* The selection as it would be if it looked at the key alone.
RewriteOpKeyOnly(c) ==
    IF c.key
    THEN IF c.translate THEN "translate" ELSE "cleanup"
    ELSE "none"

\* lib.rs:308-318, main.rs:71-72 and 140-163: which rewrite the cycle makes.
\* translate comes first; without a key there is no cleaner and no rewrite.
RewriteOp(c) ==
    IF c.translate /\ c.key THEN "translate"
    ELSE IF c.cleanup /\ c.key THEN "cleanup"
    ELSE "none"

\* One entry of the call history: the service, its argument, the setting
\* the call was made with, its outcome.
Call(op, arg, set) == [op |-> op, arg |-> arg, set |-> set, res |-> "pending"]

\* TextInserter::new(config.auto_enter), lib.rs:322, main.rs:93.
EnterMode(c) == IF c.auto_enter THEN "enter" ELSE "no_enter"
Returned(cs, res) == [cs EXCEPT ![Len(cs)].res = res]

\* What stays in `reported` when a handler starts: the startup failures.
Startup(rep) == rep \cap {"recorder_new"}

\* AudioRecorder::start(), audio.rs:161-175, as one step: always Ok(()).
RecStart ==
    IF armed
    THEN UNCHANGED <<armed, samples>>
    ELSE samples' = <<>> /\ armed' = TRUE

\* stop() as it would be without the store to is_recording.
RecStopStaysArmed ==
    /\ clip' \in StopResults(samples, sess)
    /\ UNCHANGED <<armed, samples>>

\* AudioRecorder::stop(), audio.rs:177-194, as one step.
RecStop ==
    /\ armed' = FALSE
    /\ clip' \in StopResults(samples, sess)
    /\ UNCHANGED samples

\* The recorder of the cli front end (its audio.rs is not among the sources):
\* arm() clears the Sample Buffer and sets Armed, or fails and arms nothing.
CliRecStart(ok) ==
    IF ok
    THEN samples' = <<>> /\ armed' = TRUE
    ELSE UNCHANGED <<armed, samples>>

\* disarm_and_drain() sets Armed to false and returns (and clears) the
\* contents of the Sample Buffer, encoded, or fails.
CliRecStop ==
    /\ armed' = FALSE
    /\ clip' \in StopResults(samples, sess)
    /\ samples' = <<>>

\* The way back to Idle as it would be without telling the UI.
FinishSilent ==
    /\ status' = "Idle"
    /\ pc' = "poll"
    /\ text' = ""
    /\ cfg' = IF app = "tauri" THEN NoRewrite ELSE cfg
    /\ UNCHANGED <<published, pubs>>

\* lib.rs:340-345, main.rs:188-190: back to Idle, published.
\* The cycle's `config` local (lib.rs:286) ends with the Recording arm; main
\* keeps the settings it computed at startup (main.rs:70-72).
Finish ==
    /\ status' = "Idle"
    /\ published' = "Idle"
    /\ pubs' = IF pc = "poll" THEN <<published, "Transcribing", "Idle">>
                              ELSE Append(pubs, "Idle")
    /\ pc' = "poll"
    /\ text' = ""
    /\ cfg' = IF app = "tauri" THEN NoRewrite ELSE cfg

Ignore == UNCHANGED handlerVars

\* The handler as it would be if it did not look at the Option.
TauriPressedIdleNoCheck ==
    /\ IF hasRecorder THEN RecStart ELSE UNCHANGED <<armed, samples>>
    /\ status' = "Recording"
    /\ published' = "Recording"
    /\ pubs' = <<published, "Recording">>
    /\ reported' = Startup(reported)
    /\ calls' = <<>>
    /\ UNCHANGED <<pc, text, clip, cfg>>

\* lib.rs:263-277: TriggerPressed with status Idle.
TauriPressedIdle ==
    IF hasRecorder
    THEN /\ RecStart
         /\ status' = "Recording"
         /\ published' = "Recording"
         /\ pubs' = <<published, "Recording">>
         /\ reported' = Startup(reported)
         /\ calls' = <<>>
         /\ UNCHANGED <<pc, text, clip, cfg>>
    ELSE Ignore

\* The Recording arm as it would be without the is_empty() test.
TauriPressedRecordingNoEmptyTest ==
    /\ RecStop
    /\ reported' = Startup(reported)
    /\ IF clip'.ok
       THEN /\ cfg' = config
            /\ status' = "Transcribing"
            /\ published' = "Transcribing"
            /\ pubs' = <<published, "Transcribing">>
            /\ pc' = "transcribe"
            /\ text' = ""
            /\ calls' = Append(calls, Call("transcribe", clip'.data, config.language))
       ELSE Finish /\ UNCHANGED calls

\* lib.rs:278-304 and 337-345: TriggerPressed with status Recording, up to
\* the transcribe call, or to Idle when there is nothing to send.
TauriPressedRecording ==
    /\ RecStop
    /\ reported' = Startup(reported)
    /\ IF clip'.ok /\ clip'.data # <<>>
       THEN /\ cfg' = config
            /\ status' = "Transcribing"
            /\ published' = "Transcribing"
            /\ pubs' = <<published, "Transcribing">>
            /\ pc' = "transcribe"
            /\ text' = ""
            /\ calls' = Append(calls, Call("transcribe", clip'.data, config.language))
       ELSE Finish /\ UNCHANGED calls

\* The loop as it would be if it stopped on TriggerReleased as well.
TauriOnEventReleaseStops(ev) ==
    CASE status = "Idle" -> IF ev = TriggerPressed THEN TauriPressedIdle ELSE Ignore
      [] status = "Recording" -> TauriPressedRecording
      [] status = "Transcribing" -> Ignore

\* lib.rs:261-351: only TriggerPressed is looked at; it toggles.
TauriOnEvent(ev) ==
    IF ev = TriggerPressed
    THEN CASE status = "Idle" -> TauriPressedIdle
           [] status = "Recording" -> TauriPressedRecording
           [] status = "Transcribing" -> Ignore
    ELSE Ignore

\* main.rs:112-123: TriggerPressed; state is set first and taken back if
\* start() fails.
CliPressed ==
    IF status = "Idle"
    THEN \E ok \in BOOLEAN :
           /\ CliRecStart(ok)
           /\ status' = IF ok THEN "Recording" ELSE "Idle"
           /\ published' = IF ok THEN "Recording" ELSE "Idle"
           /\ pubs' = IF ok THEN <<published, "Recording">>
                           ELSE <<published, "Recording", "Idle">>
           /\ reported' = IF ok THEN Startup(reported)
                                ELSE Startup(reported) \cup {"start"}
           /\ calls' = IF ok THEN <<>> ELSE calls
           /\ UNCHANGED <<pc, text, clip, cfg>>
    ELSE Ignore

\* The TriggerReleased arm as it would be without the test of `state`.
CliReleasedNoStateTest ==
    /\ CliRecStop
    /\ IF clip'.ok /\ clip'.data # <<>>
       THEN /\ published' = "Transcribing"
            /\ pubs' = <<published, "Transcribing">>
            /\ UNCHANGED cfg
            /\ pc' = "transcribe"
            /\ reported' = Startup(reported)
            /\ calls' = Append(calls, Call("transcribe", clip'.data, cfg.language))
            /\ UNCHANGED <<status, text>>
       ELSE /\ Finish
            /\ reported' = IF clip'.ok THEN Startup(reported)
                                      ELSE Startup(reported) \cup {"stop"}
            /\ UNCHANGED calls

\* main.rs:124-134 and 179-191: TriggerReleased; `state` stays Recording
\* while the menu bar shows Transcribing.
CliReleased ==
    IF status = "Recording"
    THEN /\ CliRecStop
         /\ IF clip'.ok /\ clip'.data # <<>>
            THEN /\ published' = "Transcribing"
                 /\ pubs' = <<published, "Transcribing">>
                 /\ UNCHANGED cfg
                 /\ pc' = "transcribe"
                 /\ reported' = Startup(reported)
                 /\ calls' = Append(calls, Call("transcribe", clip'.data, cfg.language))
                 /\ UNCHANGED <<status, text>>
            ELSE /\ Finish
                 /\ reported' = IF clip'.ok THEN Startup(reported)
                                           ELSE Startup(reported) \cup {"stop"}
                 /\ UNCHANGED calls
    ELSE Ignore

\* main.rs:110-193
CliOnEvent(ev) == IF ev = TriggerPressed THEN CliPressed ELSE CliReleased

\* The iteration as it would be if it looked at the first event and left
\* it in the channel.
HandlePeeks ==
    /\ pc = "poll"
    /\ running
    /\ queue # <<>>
    /\ queue' = queue
    /\ handled' = [ev |-> Head(queue).ev, was |-> status]
    /\ LogGot(Head(queue))
    /\ IF app = "tauri"
       THEN TauriOnEvent(Head(queue).ev)
       ELSE CliOnEvent(Head(queue).ev)
    /\ UNCHANGED <<steps, app, logs, is_pressed, IS_PRESSED, RIGHT_OPT_PRESSED, gest, activations,
                   running, hasRecorder, listening, config,
                   lock, cbPc, cbData, recPc, snap, stream, sess>>

\* try_recv() finds an event and the match handles it (lib.rs:260-352,
\* main.rs:110-194).
Received ==
    /\ pc = "poll"
    /\ queue # <<>>
    /\ queue' = Tail(queue)
    /\ handled' = [ev |-> Head(queue).ev, was |-> status]
    /\ LogGot(Head(queue))
    /\ IF app = "tauri"
       THEN TauriOnEvent(Head(queue).ev)
       ELSE CliOnEvent(Head(queue).ev)
    /\ UNCHANGED <<steps, app, logs, is_pressed, IS_PRESSED, RIGHT_OPT_PRESSED, gest, activations,
                   running, hasRecorder, listening, config,
                   lock, cbPc, cbData, recPc, snap, stream, sess>>

\* One loop iteration that finds an event: the test of `running` and the
\* try_recv() taken as one step.
Handle == running /\ Received

\* One loop iteration that finds the channel empty: try_recv() is Err, the
\* loop sleeps and polls again (lib.rs:260 and 354, main.rs:109 and 200).
PollEmpty ==
    /\ pc = "poll"
    /\ running
    /\ queue = <<>>
    /\ handled' = [ev |-> "empty", was |-> status]
    /\ UNCHANGED <<log, steps, app, logs, inputVars, running, hasRecorder, status, published, pubs, pc,
                   text, reported, listening, config, cfg, calls, audioVars>>

\* The error and the empty-text arm as they would be with an early return.
TranscribeFailedNoReset(isErr) ==
    /\ pc' = "poll"
    /\ reported' = IF isErr THEN reported \cup {"transcribe"} ELSE reported
    /\ UNCHANGED <<status, published, pubs, text, cfg>>

\* lib.rs:328-345, main.rs:171-190: empty transcription or an error: logged,
\* nothing inserted, back to Idle.
TranscribeFailed(isErr) ==
    /\ Finish
    /\ reported' = IF isErr THEN reported \cup {"transcribe"} ELSE reported

\* The match on the result as it would be without the is_empty() guard: an
\* empty text goes on to insert.
TranscribeReturnNoEmptyGuard ==
    /\ pc = "transcribe"
    /\ \/ \E t \in {Transcript, ""} :
            LET op == RewriteOp(cfg) IN
            /\ text' = t
            /\ pc' = IF op = "none" THEN "insert" ELSE "rewrite"
            /\ calls' = Append(Returned(calls, IF t = "" THEN "empty" ELSE "ok"),
                               IF op = "none"
                               THEN Call("insert", t, EnterMode(cfg))
                               ELSE Call(op, t, "-"))
            /\ UNCHANGED <<status, published, pubs, reported, cfg>>
       \/ /\ TranscribeFailed(TRUE)
          /\ calls' = Returned(calls, "err")
    /\ UNCHANGED <<log, steps, app, logs, inputVars, running, hasRecorder, handled, listening,
                   config, audioVars>>

\* lib.rs:302-318, main.rs:133-163: client.transcribe returns.  A non-empty
\* text goes to the rewrite call when translate or cleanup applies, otherwise
\* straight to insert.
TranscribeReturn ==
    /\ pc = "transcribe"
    /\ \/ LET op == RewriteOp(cfg) IN
            /\ text' = Transcript
            /\ pc' = IF op = "none" THEN "insert" ELSE "rewrite"
            /\ calls' = Append(Returned(calls, "ok"),
                               IF op = "none"
                               THEN Call("insert", Transcript, EnterMode(cfg))
                               ELSE Call(op, Transcript, "-"))
            /\ UNCHANGED <<status, published, pubs, reported, cfg>>
       \/ \E isErr \in BOOLEAN :
            /\ TranscribeFailed(isErr)
            /\ calls' = Returned(calls, IF isErr THEN "err" ELSE "empty")
    /\ UNCHANGED <<log, steps, app, logs, inputVars, running, hasRecorder, handled, listening,
                   config, audioVars>>

\* What translate() and cleanup() give back: the rewritten text, an empty
\* text, the raw text (cleanup.rs:74-78, a non-success HTTP status), an error.
RewriteResults == {"ok", "empty", "raw", "err"}

\* The selection as it would be if a failed rewrite discarded the result.
FinalTextDropsOnErr(res, raw) ==
    CASE res = "ok" -> Rewritten
      [] res = "empty" -> ""
      [] res = "raw" -> raw
      [] res = "err" -> ""

\* lib.rs:309-315 unwrap_or(text), main.rs:143-159: the text that goes on to
\* insert; an Err keeps the raw transcript.
FinalText(res, raw) ==
    CASE res = "ok" -> Rewritten
      [] res = "empty" -> ""
      [] res = "raw" -> raw
      [] res = "err" -> raw

\* The rewrite arm as it would be if the inserter were built from the
\* shared configuration instead of the cycle's copy.
RewriteReturnLiveConfig ==
    /\ pc = "rewrite"
    /\ \E res \in RewriteResults :
         /\ text' = FinalText(res, text)
         /\ calls' = Append(Returned(calls, res),
                           Call("insert", text', EnterMode(config)))
    /\ pc' = "insert"
    /\ UNCHANGED <<status, published, pubs, reported, cfg>>
    /\ UNCHANGED <<log, steps, app, logs, inputVars, running, hasRecorder, handled, listening,
                   config, audioVars>>

\* lib.rs:309-315 unwrap_or(text), main.rs:140-160: the rewrite call returns;
\* on failure the raw text is kept.
RewriteReturn ==
    /\ pc = "rewrite"
    /\ \E res \in RewriteResults :
         /\ text' = FinalText(res, text)
         /\ calls' = Append(Returned(calls, res), Call("insert", text', EnterMode(cfg)))
    /\ pc' = "insert"
    /\ UNCHANGED <<status, published, pubs, reported, cfg>>
    /\ UNCHANGED <<log, steps, app, logs, inputVars, running, hasRecorder, handled, listening,
                   config, audioVars>>

\* lib.rs:322-345, main.rs:165-190: insert returns, Ok or Err (logged).
InsertReturn ==
    /\ pc = "insert"
    /\ Finish
    /\ \E ok \in BOOLEAN :
         /\ reported' = IF ok THEN reported ELSE reported \cup {"insert"}
         /\ calls' = Returned(calls, IF ok THEN "ok" ELSE "err")
    /\ UNCHANGED <<log, steps, app, logs, inputVars, running, hasRecorder, handled, listening,
                   config, audioVars>>

\* save_config as it would be if it stored the configuration before saving
\* it.
SaveConfigStoresFirst(c, saved) == config' = c

\* commands.rs:21-22: config.save()? returns the error before the store to
\* state.config; saved: whether Config::save (config.rs:80-85) returned Ok.
SaveConfigTo(c, saved) == config' = IF saved THEN c ELSE config

\* commands.rs:19-24: the settings window saves a new configuration while
\* the loop runs; the loop reads it at its next stop (lib.rs:286).  A save
\* that fails changes nothing here (SpecSave has both outcomes).
SaveConfig ==
    /\ app = "tauri"
    /\ \E c \in Configs : c # config /\ SaveConfigTo(c, TRUE)
    /\ UNCHANGED <<log, steps, app, logs, inputVars, running, hasRecorder, status, published, pubs, pc,
                   text, reported, handled, listening, cfg, calls,
                   audioVars>>

\* The listener thread of the front end, sending into the channel.
ListenRdev ==
    /\ app = "cli"
    /\ pc # "exit"
    /\ listening
    /\ Len(queue) < QueueCap
    /\ \E sig \in RdevSignals : RdevEvent(sig, FALSE)
    /\ LogSent
    /\ UNCHANGED <<steps, app, logs, loopVars, audioVars>>

\* The CGEventTap listener as it would be if it sent events without its tap.
ListenCgNoTap ==
    /\ app = "tauri"
    /\ Len(queue) < QueueCap
    /\ \E sig \in CgSignals : CgEvent(sig, FALSE)
    /\ LogSent
    /\ UNCHANGED <<steps, app, logs, loopVars, audioVars>>

ListenCg ==
    /\ app = "tauri"
    /\ listening
    /\ Len(queue) < QueueCap
    /\ \E sig \in CgSignals : CgEvent(sig, FALSE)
    /\ LogSent
    /\ UNCHANGED <<steps, app, logs, loopVars, audioVars>>

\* Startup.  The settings are whatever the environment or the settings file
\* holds and stay as they are (SpecSettings has them saved while the loop
\* runs).
\* cli: AudioRecorder::new()? ends main on failure (main.rs:78).
\* tauri: a failure is logged and the loop runs with recorder = None
\* (lib.rs:232-239).
Init ==
    /\ app \in {"cli", "tauri"}
    /\ InitInput
    /\ InitAudio
    /\ running = TRUE
    /\ hasRecorder \in BOOLEAN
    /\ status = "Idle"
    /\ published = "Idle"
    /\ pubs = <<"Idle">>
    /\ steps = <<>>
    /\ log = NoLog
    /\ logs = NoLogs
    /\ pc = IF app = "cli" /\ ~hasRecorder THEN "exit" ELSE "poll"
    /\ text = ""
    /\ reported = IF hasRecorder THEN {} ELSE {"recorder_new"}
    /\ handled = [ev |-> "none", was |-> "Idle"]
    /\ listening \in BOOLEAN
    /\ config \in RewriteConfigs
    /\ cfg = IF app = "tauri" THEN NoRewrite ELSE config
    /\ calls = <<>>

Next ==
    \/ ListenRdev \/ ListenCg
    \/ Handle \/ PollEmpty
    \/ TranscribeReturn \/ RewriteReturn \/ InsertReturn
    \/ CbTest \/ CbAppend

Spec == Init /\ [][Next]_vars

\* The round trip returns: the transcription and rewrite clients carry a
\* 30 s timeout (transcribe.rs:21), insert is a bounded sequence of steps.
FairSpec ==
    /\ Spec
    /\ WF_vars(TranscribeReturn)
    /\ WF_vars(RewriteReturn)
    /\ WF_vars(InsertReturn)

(***************************************************************************)
(* SpecCycle: one run_input_loop with a recorder, statement by statement:  *)
(* the handlers call start() and stop() as the steps of SpecAudio, with    *)
(* the mutex visible, and then go through the service calls.  The trigger  *)
(* events arrive at any moment the loop polls; the callback runs           *)
(* throughout.                                                             *)
(***************************************************************************)
InitCycle ==
    /\ app = "tauri"
    /\ InitInput
    /\ InitAudio
    /\ running = TRUE
    /\ hasRecorder = TRUE
    /\ status = "Idle"
    /\ published = "Idle"
    /\ pubs = <<"Idle">>
    /\ steps = <<>>
    /\ log = NoLog
    /\ logs = NoLogs
    /\ pc = "poll"
    /\ text = ""
    /\ reported = {}
    /\ handled = [ev |-> "none", was |-> "Idle"]
    /\ listening = TRUE
    /\ config \in RewriteConfigs
    /\ cfg = NoRewrite
    /\ calls = <<>>

\* lib.rs:263-265: TriggerPressed received in Idle, rec.start() is called.
CycStart == pc = "poll" /\ status = "Idle" /\ LoopStart

\* lib.rs:271-276: start() has returned Ok: status = Recording, published.
CycStarted ==
    /\ pc = "poll" /\ status = "Idle"
    /\ armed /\ recPc = "idle"
    /\ status' = "Recording"
    /\ published' = "Recording"
    /\ pubs' = <<published, "Recording">>
    /\ calls' = <<>>
    /\ UNCHANGED <<log, steps, app, logs, inputVars, running, hasRecorder, pc, text, reported,
                   handled, listening, config, cfg, audioVars>>

\* lib.rs:278-286: TriggerPressed received in Recording: status =
\* Transcribing, published, and the configuration is copied.
CycStopBegin ==
    /\ pc = "poll" /\ status = "Recording"
    /\ recPc = "idle"
    /\ status' = "Transcribing"
    /\ published' = "Transcribing"
    /\ pubs' = <<published, "Transcribing">>
    /\ cfg' = config
    /\ pc' = "stop"
    /\ UNCHANGED <<log, steps, app, logs, inputVars, running, hasRecorder, text, reported,
                   handled, listening, config, calls, audioVars>>

\* lib.rs:287: rec.stop() is called.
CycStopCall == pc = "stop" /\ LoopStop

\* lib.rs:289-304 and 337-345: stop() has returned; a non-empty clip goes
\* to client.transcribe, anything else straight to Idle.
CycStopped ==
    /\ pc = "stop"
    /\ ~armed /\ recPc = "idle"
    /\ IF clip.ok /\ clip.data # <<>>
       THEN /\ pc' = "transcribe"
            /\ text' = ""
            /\ calls' = Append(calls, Call("transcribe", clip.data, cfg.language))
            /\ UNCHANGED <<status, published, pubs, cfg>>
       ELSE Finish /\ UNCHANGED calls
    /\ UNCHANGED <<log, steps, app, logs, inputVars, running, hasRecorder, reported, handled,
                   listening, config, audioVars>>

NextCycle ==
    \/ CycStart \/ AStartLock \/ AStartClear \/ AStartStore \/ CycStarted
    \/ CycStopBegin \/ CycStopCall \/ AStopLock \/ AStopClone \/ AStopReturn
    \/ CycStopped
    \/ TranscribeReturn \/ RewriteReturn \/ InsertReturn
    \/ CbTest \/ CbAppend
SpecCycle == InitCycle /\ [][NextCycle]_vars

(***************************************************************************)
(* SpecSettings: run_input_loop with a recorder, one step per handler,     *)
(* while the settings window saves new settings at any moment.  A          *)
(* TriggerPressed arrives whenever the loop polls.                         *)
(***************************************************************************)
InitSettings ==
    /\ app = "tauri"
    /\ InitInput
    /\ InitAudio
    /\ running = TRUE
    /\ hasRecorder = TRUE
    /\ status = "Idle"
    /\ published = "Idle"
    /\ pubs = <<"Idle">>
    /\ steps = <<>>
    /\ log = NoLog
    /\ logs = NoLogs
    /\ pc = "poll"
    /\ text = ""
    /\ reported = {}
    /\ handled = [ev |-> "none", was |-> "Idle"]
    /\ listening = TRUE
    /\ config \in Configs
    /\ cfg = NoRewrite
    /\ calls = <<>>

\* lib.rs:260-351: the loop receives a TriggerPressed and runs its arm.
Toggle ==
    /\ pc = "poll"
    /\ running
    /\ handled' = [ev |-> TriggerPressed, was |-> status]
    /\ TauriOnEvent(TriggerPressed)
    /\ UNCHANGED <<log, steps, app, logs, inputVars, running, hasRecorder, listening, config,
                   lock, cbPc, cbData, recPc, snap, stream, sess>>

NextSettings ==
    \/ Toggle
    \/ TranscribeReturn \/ RewriteReturn \/ InsertReturn
    \/ SaveConfig
    \/ CbTest \/ CbAppend
SpecSettings == InitSettings /\ [][NextSettings]_vars

-----------------------------------------------------------------------------
(* Claims about the listeners, checked under SpecInput *)

Alternates(q) ==
    \A i \in 1..Len(q) :
        q[i].ev = IF i % 2 = 1 THEN TriggerPressed ELSE TriggerReleased

\* C5: the events the rdev listener sends strictly alternate TriggerPressed,
\* TriggerReleased, starting with TriggerPressed, whatever raw signals arrive.
C5_RdevAlternation == app = "cli" => Alternates(queue)

\* C5 witness: the rdev listener has sent two full press/release pairs.
C5_Witness == app = "cli" /\ Len(queue) >= 4

\* C6 as stated: the events the CGEventTap listener sends strictly alternate.
C6_Original == app = "tauri" => Alternates(queue)

\* C6 amended: in the CGEventTap listener a TriggerReleased is never the first
\* event and never directly follows another TriggerReleased (consecutive
\* TriggerPressed do occur).
C6_CgReleaseFollowsPress ==
    app = "tauri" =>
        \A i \in 1..Len(queue) :
            queue[i].ev = TriggerReleased =>
                i > 1 /\ queue[i - 1].ev = TriggerPressed

\* C6 witness: two presses in a row, then a release, from the CGEventTap listener.
C6_Witness ==
    /\ app = "tauri"
    /\ Len(queue) >= 3
    /\ queue[1].ev = TriggerPressed
    /\ queue[2].ev = TriggerPressed
    /\ queue[3].ev = TriggerReleased

OnePair(g) ==
    /\ g.phase = "down" => g.p = 1 /\ g.r = 0
    /\ g.phase = "up" => g.p = 1 /\ g.r = 1

\* C7 as stated: every gesture begun with the latches clear yields exactly one
\* TriggerPressed (while held) and exactly one TriggerReleased (once released).
C7_Original == gest.clean => OnePair(gest)

\* C7 amended: a gesture made of mapped mouse trigger buttons only, begun with
\* the latches clear, yields exactly one TriggerPressed while the buttons go
\* down and exactly one TriggerReleased once they go up, however many of the
\* mapped buttons are involved.
C7_MouseGestureOnePair == (gest.clean /\ gest.mouseOnly) => OnePair(gest)

\* C7 witness: a released mouse-only gesture that produced its pair.
C7_Witness ==
    /\ gest.clean /\ gest.mouseOnly /\ gest.phase = "up"
    /\ gest.p = 1 /\ gest.r = 1

\* C8 as stated: four activate-only signals make either listener send
\* TriggerPressed, TriggerReleased, TriggerPressed, TriggerReleased.
C8_Original ==
    activations = 4 =>
        Evs(queue) = <<TriggerPressed, TriggerReleased, TriggerPressed, TriggerReleased>>

\* C8 amended: under activate-only signals the rdev listener sends one event
\* per activation, alternating from TriggerPressed; the CGEventTap listener
\* sends TriggerPressed for every activation.
C8_ToggleActivations ==
    activations >= 0 =>
        /\ Len(queue) = activations
        /\ app = "cli" => Alternates(queue)
        /\ app = "tauri" => \A i \in 1..Len(queue) : queue[i].ev = TriggerPressed

\* C8 witness: four activations handled by the rdev listener.
C8_Witness == app = "cli" /\ activations = 4 /\ Len(queue) = 4

-----------------------------------------------------------------------------
(* Claims about the recorder and the callback, checked under SpecAudio *)

\* C3: the clip returned by the stop() of a session holds no sample that the
\* device delivered before that session's start().
C3_SessionIsolation ==
    clip.ok => \A i \in 2..Len(clip.data) : clip.data[i] = clip.of

\* C4: the callback appends to the Sample Buffer only at moments when the
\* Armed flag is true.
C4_AppendOnlyWhileArmed ==
    [][(cbPc = "wantLock" /\ cbPc' = "idle") => armed]_vars

-----------------------------------------------------------------------------
(* Claims about the control loops, checked under Spec and FairSpec *)

\* The step in which the loop receives event ev.
Popped(ev) ==
    /\ pc = "poll"
    /\ queue # <<>>
    /\ Head(queue).ev = ev
    /\ queue' = Tail(queue)

\* The event that stops a recording in the front end that runs.
StopTrigger == IF app = "cli" THEN TriggerReleased ELSE TriggerPressed

IdleAll == pc = "poll" /\ status = "Idle" /\ published = "Idle" /\ ~armed

\* What accepting the stop trigger does at once: disarmed, and either inside
\* the round trip or already back in Idle.
Stopped == ~armed' /\ (Busy' \/ IdleAll')

\* C1: once the stop trigger is accepted in Recording, the recorder is
\* disarmed, stays disarmed during the round trip, and whatever the outcome
\* of encode, transcription, rewrite and injection the loop comes back to
\* polling with Session State Idle, published status Idle and Armed false.
C1_FailSafeIdle ==
    /\ [][(status = "Recording" /\ Popped(StopTrigger)) => Stopped]_vars
    /\ [](Busy => ~armed)
    /\ (Busy ~> IdleAll)

\* C1 witness: back in Idle after a stop whose transcription failed.
C1_Witness ==
    /\ handled.ev = StopTrigger /\ handled.was = "Recording"
    /\ "transcribe" \in reported
    /\ IdleAll

\* C2: a TriggerPressed sent while the loop was inside a transcription round
\* trip never starts a recording, not even when it is received afterwards.
C2_NoReentrancy ==
    [][(Popped(TriggerPressed) /\ Head(queue).busy)
          => (status' # "Recording" /\ armed' = armed)]_vars

C10_ArmOrStayIdle ==
    [][(status = "Idle" /\ Popped(TriggerPressed)) =>
          \/ status' = "Recording" /\ published' = "Recording" /\ armed'
          \/ /\ status' = "Idle" /\ published' = "Idle" /\ ~armed'
             /\ \/ "start" \in reported'
                \/ ~hasRecorder /\ "recorder_new" \in reported']_vars

\* C10 witness: a TriggerPressed was received in Idle and arming did not happen.
C10_Witness ==
    /\ handled = [ev |-> TriggerPressed, was |-> "Idle"]
    /\ status = "Idle" /\ ~armed /\ pc = "poll"
    /\ reported # {}

-----------------------------------------------------------------------------
(* Claims about stop() and set_device(), checked under SpecAudio and        *)
(* SpecAudioApi                                                             *)

\* C11: stop() sets Armed to false, returns the encoding of the samples that
\* were in the Sample Buffer, and leaves the Sample Buffer empty: the critical
\* section that takes the samples out leaves none behind.
C11_StopDrains ==
    /\ [][(recPc = "stop_clone" /\ recPc' = "stop_encode") =>
             samples' = <<>>]_vars
    /\ [][(recPc = "stop_encode" /\ recPc' = "idle") =>
             /\ ~armed'
             /\ clip'.ok =>
                  clip'.data = (IF snap = <<>> THEN <<>> ELSE EncodeWav(snap))]_vars

\* A step of set_device(): its first statement or its return.
SetDeviceStep ==
    \/ recPc = "idle" /\ recPc' = "setdev_build"
    \/ recPc = "setdev_build" /\ recPc' \in {"idle", "setdev_err"}
    \/ recPc = "setdev_err" /\ recPc' = "idle"

\* C20: set_device() has set Armed to false by the time the new stream is
\* built, the stream of the recorder (before and after a switch) tests the
\* recorder's own Armed flag and appends to the recorder's own Sample
\* Buffer, and no step of set_device() changes the Sample Buffer.
C20_DeviceSwitch ==
    /\ [](recPc = "setdev_build" => ~armed)
    /\ [](stream.is_rec_c = SelfFlag /\ stream.samples_c = SelfSamples)
    /\ [][SetDeviceStep => samples' = samples]_vars

\* C20 witness: after a successful switch a recording was started and the
\* callback of the new stream has appended to the Sample Buffer.
C20_Witness ==
    /\ stream.gen = 1 /\ stream.dev = 2
    /\ armed /\ recPc = "idle"
    /\ samples = <<sess>>

-----------------------------------------------------------------------------
(* Claims about one cycle's service calls, checked under Spec *)

\* The stop of a session that captured nothing has been handled.
EmptyStop == clip.ok /\ clip.data = <<>>

\* C12: when the stop trigger is accepted in Recording with no sample in the
\* Sample Buffer, the handler goes straight back to Idle, and neither the
\* Transcription Service nor the rewrite service nor the Output Injector is
\* called for that session.
C12_EmptyRecording ==
    /\ [][(status = "Recording" /\ Popped(StopTrigger) /\ samples = <<>>)
             => (IdleAll' /\ calls' = <<>>)]_vars
    /\ [](EmptyStop => (calls = <<>> /\ ~Busy))

\* C12 witness: a recording was stopped with nothing captured, and the loop
\* is back in Idle without a call.
C12_Witness ==
    /\ handled = [ev |-> StopTrigger, was |-> "Recording"]
    /\ EmptyStop /\ samples = <<>>
    /\ IdleAll /\ calls = <<>>

\* The transcription call of the latest session gave no text: it failed or
\* its text was empty.
NoTranscript ==
    /\ calls # <<>>
    /\ calls[1].op = "transcribe"
    /\ calls[1].res \in {"err", "empty"}

\* C13: when the transcription call returns an error or an empty text, the
\* loop is back in Idle at once, and that session calls neither the rewrite
\* service nor the Output Injector.
C13_NoTranscriptNoInsert ==
    /\ [][(pc = "transcribe" /\ NoTranscript') => IdleAll']_vars
    /\ [](NoTranscript => (Len(calls) = 1 /\ ~Busy))

\* C13 witness: the transcription came back empty and the loop is in Idle
\* with the transcribe call as the session's only call.
C13_Witness ==
    /\ NoTranscript /\ calls[1].res = "empty"
    /\ Len(calls) = 1
    /\ IdleAll

\* The latest session made a rewrite call and it failed: translate() or
\* cleanup() returned Err, or cleanup() met a non-success status.
RewriteFailed ==
    /\ Len(calls) >= 2
    /\ calls[2].op \in {"translate", "cleanup"}
    /\ calls[2].res \in {"err", "raw"}

\* C14: when the configured rewrite call fails, the Output Injector is still
\* called, once, with exactly the transcript the Transcription Service
\* returned, and when that insert returns the loop is in Idle.
C14_RewriteFallback ==
    /\ [](RewriteFailed =>
            /\ Len(calls) = 3
            /\ calls[2].arg = Transcript
            /\ calls[3].op = "insert"
            /\ calls[3].arg = Transcript)
    /\ [][(RewriteFailed /\ pc = "insert" /\ pc' # "insert") => IdleAll']_vars

\* C14 witness: the rewrite failed, insert got the raw transcript and
\* returned, and the loop is in Idle.
C14_Witness ==
    /\ RewriteFailed /\ calls[2].res = "err"
    /\ calls[3] = [op |-> "insert", arg |-> Transcript, set |-> "enter",
                   res |-> "ok"]
    /\ IdleAll

\* The transcription of the latest session returned the text Transcript.
GotTranscript ==
    /\ calls # <<>>
    /\ calls[1].op = "transcribe"
    /\ calls[1].res = "ok"

\* The latest session went from the transcription straight to insert.
Unrewritten == GotTranscript /\ Len(calls) >= 2 /\ calls[2].op = "insert"

\* C15: a session with at least one captured sample whose transcription
\* returns the non-empty text Transcript, with neither translate nor cleanup
\* set, calls insert exactly once, with exactly Transcript, makes no rewrite
\* call, and when that insert returns the loop is in Idle.
C15_HappyPath ==
    /\ [][(pc = "transcribe" /\ ~cfg.translate /\ ~cfg.cleanup /\ GotTranscript')
             => /\ pc' = "insert"
                /\ Len(calls') = 2
                /\ Len(calls'[1].arg) >= 2
                /\ calls'[2] = Call("insert", Transcript, EnterMode(cfg))]_vars
    /\ [](Unrewritten => (Len(calls) = 2 /\ calls[2].arg = Transcript))
    /\ [][(Unrewritten /\ pc = "insert" /\ pc' # "insert") => IdleAll']_vars

\* C15 witness: Transcript was inserted unrewritten and the loop is in Idle.
C15_Witness ==
    /\ Len(calls) = 2
    /\ calls[1] = [op |-> "transcribe", arg |-> EncodeWav(<<0>>),
                   set |-> "auto", res |-> "ok"]
    /\ calls[2] = [op |-> "insert", arg |-> Transcript, set |-> "enter",
                   res |-> "ok"]
    /\ IdleAll

\* How many calls of the latest session went to service op.
CallsTo(op) == Cardinality({i \in 1..Len(calls) : calls[i].op = op})

\* C16: the stop of a session drains the Sample Buffer (takes the samples and
\* leaves it empty) and ends the session, the clip that stop produced is the
\* one argument of at most one transcription call, and at most one insert
\* call follows from it.
C16_OneClipPerSession ==
    /\ [][(status = "Recording" /\ Popped(StopTrigger))
             => (Stopped /\ samples' = <<>>)]_vars
    /\ [](/\ CallsTo("transcribe") <= 1
          /\ CallsTo("insert") <= 1
          /\ CallsTo("transcribe") = 1 => calls[1].arg = clip.data)

-----------------------------------------------------------------------------
(* Claims about startup failures, checked under Spec *)

\* C17: when the listener thread could not set up its OS hook and has exited,
\* the control loop still runs: it polls, every poll finds the channel
\* empty, and Session State, the published status and the recorder stay
\* Idle and disarmed; the loop never leaves its polling.
C17_ListenerFailureAbsorbed ==
    (~listening /\ pc # "exit") =>
        /\ running /\ pc = "poll"
        /\ queue = <<>>
        /\ handled.ev \in {"none", "empty"}
        /\ status = "Idle" /\ published = "Idle" /\ ~armed
        /\ calls = <<>>

\* C17 witness: without a listener the loop has polled and found nothing.
C17_Witness ==
    /\ ~listening
    /\ handled = [ev |-> "empty", was |-> "Idle"]
    /\ pc = "poll" /\ running /\ status = "Idle"

\* C18: when the audio recorder could not be constructed at startup, the
\* control loop still runs (it has not returned), and every trigger event
\* leaves it in Idle with the recorder disarmed.
C18_AudioFailureDegrades ==
    ~hasRecorder =>
        /\ pc = "poll" /\ running
        /\ status = "Idle" /\ published = "Idle" /\ ~armed

-----------------------------------------------------------------------------
(* Claims about the mutex and the service calls, checked under SpecCycle *)

\* C19: whenever a transcription or a rewrite call is in flight the samples
\* mutex is free, and the recorder holds it only for the one clear() of
\* start() or the one clone() of stop(): a callback that wants the mutex
\* never waits for network I/O.
C19_NoLockAcrossNetwork ==
    /\ pc \in {"transcribe", "rewrite"} => (lock = "none" /\ recPc = "idle")
    /\ lock = "rec" => (recPc \in {"start_clear", "stop_clone"} /\ ~Busy)

\* C19 witness: a rewrite call is in flight after a stop() that held the
\* mutex for its copy; the mutex is free.
C19_Witness ==
    /\ pc = "rewrite"
    /\ snap # <<>> /\ clip.data = EncodeWav(snap)
    /\ lock = "none"

-----------------------------------------------------------------------------
(* Claims about the settings, checked under SpecSettings *)

\* The calls of the cycle in progress were made with the settings c.
MadeWith(c) ==
    /\ calls # <<>>
    /\ calls[1].op = "transcribe" /\ calls[1].set = c.language
    /\ Len(calls) >= 2 =>
         calls[2].op = (IF RewriteOp(c) = "none" THEN "insert" ELSE RewriteOp(c))
    /\ \A i \in 1..Len(calls) :
         calls[i].op = "insert" => calls[i].set = EnterMode(c)

\* C21: the configuration is copied when the stop trigger is handled, so a
\* cycle starts from the latest saved settings; while the transcription, the
\* rewrite or the injection of that cycle is in progress the copy does not
\* change, whatever save_config stores meanwhile, and the language, the
\* rewrite call and the auto-Enter mode of the cycle's calls are those of
\* the copy.
C21_ConfigSnapshot ==
    /\ [][(pc = "poll" /\ Busy') => cfg' = config]_vars
    /\ [][(Busy /\ Busy') => cfg' = cfg]_vars
    /\ [](Busy => MadeWith(cfg))

\* C21 witness: insert is in progress after a rewrite, and the saved
\* settings now differ from the cycle's in rewrite mode, language and
\* auto-Enter.
C21_Witness ==
    /\ pc = "insert" /\ Len(calls) = 3
    /\ RewriteOp(config) # RewriteOp(cfg)
    /\ config.language # cfg.language
    /\ config.auto_enter # cfg.auto_enter
    /\ MadeWith(cfg)

-----------------------------------------------------------------------------
(* Claims about the published status, checked under Spec *)

\* C22: a step that changes the Session State publishes the new value, and
\* whenever the loop is about to poll the published status is the Session
\* State; in the order of publication Transcribing comes only directly after
\* Recording and the publication after it is Idle, made before the loop
\* polls again.
C22_StatusPublication ==
    /\ [][status' # status => published' = status']_vars
    /\ [][(published = "Transcribing" /\ published' # published)
            => published' = "Idle"]_vars
    /\ [](pc = "poll" => published = status /\ published # "Transcribing")
    /\ [](/\ pubs[Len(pubs)] = published
          /\ \A i \in 1..Len(pubs) :
               pubs[i] = "Transcribing" =>
                 /\ i > 1 /\ pubs[i - 1] = "Recording"
                 /\ i < Len(pubs) => pubs[i + 1] = "Idle")

\* C22 witness: a cycle that went through transcription and insert has
\* ended; Recording, Transcribing, Idle were published in that order.
C22_Witness ==
    /\ pc = "poll" /\ status = "Idle"
    /\ pubs = <<"Recording", "Transcribing", "Idle">>
    /\ calls # <<>> /\ calls[Len(calls)].op = "insert"
    /\ calls[Len(calls)].res = "ok"

-----------------------------------------------------------------------------
(***************************************************************************)
(* TextInserter::insert(), step by step.  `text` is its argument,          *)
(* cfg.auto_enter the inserter's flag, `steps` what it has done so far;    *)
(* an Err return is logged by the caller ("insert" in reported).           *)
(***************************************************************************)

\* One entry of the history: the step, its outcome, the key events posted.
Step(name, res, sent) == [step |-> name, res |-> res, sent |-> sent]

\* The clipboard step.  tauri (output.rs:21-22): Clipboard::new()? and
\* set_text(text)?.  cli (output.rs:27-35): pbcopy is spawned, written to
\* and waited for, each with `?`; wait() is Ok whatever the exit status of
\* pbcopy, and the status is not looked at.
ClipboardOutcomes(a) ==
    IF a = "cli" THEN {"ok", "err", "exit_failure"} ELSE {"ok", "err"}

\* A simulated key press.  The event source or an event may fail to be
\* created.  tauri posts the key-down before it creates the key-up
\* (output.rs:51-60 and 75-81); cli creates both, then posts both
\* (output.rs:61-72 and 85-96).
KeyOutcomes(a, name, down, up) ==
    {Step(name, "ok", <<down, up>>), Step(name, "err", <<>>)}
      \cup (IF a = "tauri" THEN {Step(name, "err", <<down>>)} ELSE {})

insertFrame ==
    <<log, app, logs, inputVars, running, hasRecorder, status, published, pubs, text,
      handled, listening, config, cfg, calls, audioVars>>

\* output.rs:14-16 (tauri), 20-22 (cli): empty text, Ok(()) at once.
InsEmpty ==
    /\ pc = "insert"
    /\ text = ""
    /\ pc' = "inserted"
    /\ UNCHANGED <<steps, reported>>
    /\ UNCHANGED insertFrame

\* output.rs:21-25 (tauri), 27-38 (cli): the text goes to the clipboard.
InsClipboard ==
    /\ pc = "insert"
    /\ text # ""
    /\ \E out \in ClipboardOutcomes(app) :
         /\ steps' = Append(steps, Step("clipboard", out, <<>>))
         /\ pc' = IF out = "err" THEN "inserted" ELSE "paste"
         /\ reported' = IF out = "err" THEN reported \cup {"insert"} ELSE reported
    /\ UNCHANGED insertFrame

\* output.rs:28-31 (tauri), 41-44 (cli): Cmd+V.
InsPaste ==
    /\ pc = "paste"
    /\ \E s \in KeyOutcomes(app, "paste", "cmd_v_down", "cmd_v_up") :
         /\ steps' = Append(steps, s)
         /\ pc' = IF s.res = "ok" /\ cfg.auto_enter THEN "enter" ELSE "inserted"
         /\ reported' = IF s.res = "ok" THEN reported ELSE reported \cup {"insert"}
    /\ UNCHANGED insertFrame

\* output.rs:31-36 (tauri), 44-50 (cli): Return, when auto_enter is set.
InsEnter ==
    /\ pc = "enter"
    /\ \E s \in KeyOutcomes(app, "enter", "return_down", "return_up") :
         /\ steps' = Append(steps, s)
         /\ pc' = "inserted"
         /\ reported' = IF s.res = "ok" THEN reported ELSE reported \cup {"insert"}
    /\ UNCHANGED insertFrame

\* insert() is entered with any text and any flag, from either front end.
InitInsert ==
    /\ app \in {"cli", "tauri"}
    /\ InitInput
    /\ InitAudio
    /\ running = TRUE
    /\ hasRecorder = TRUE
    /\ status = (IF app = "tauri" THEN "Transcribing" ELSE "Recording")
    /\ published = "Transcribing"
    /\ pubs = <<"Recording", "Transcribing">>
    /\ pc = "insert"
    /\ text \in {"", Transcript, Rewritten}
    /\ reported = {}
    /\ handled = [ev |-> "none", was |-> "Recording"]
    /\ listening = TRUE
    /\ config \in Configs
    /\ cfg = config
    /\ calls = <<>>
    /\ steps = <<>>
    /\ log = NoLog
    /\ logs = NoLogs

NextInsert == InsEmpty \/ InsClipboard \/ InsPaste \/ InsEnter

SpecInsert == InitInsert /\ [][NextInsert]_vars

\* The steps insert() is to make with the settings c, in order.
Plan(c) == <<"clipboard", "paste">> \o (IF c.auto_enter THEN <<"enter">> ELSE <<>>)

\* C23: insert() with an empty text makes no step; otherwise its steps are
\* the clipboard write, the paste and, with auto-Enter only, the Enter key,
\* each at most once and in that order; a step that failed is the last
\* step made, and an insert that returned with every step done made all of
\* them.
C23_InsertProtocol ==
    /\ text = "" => steps = <<>>
    /\ Len(steps) <= Len(Plan(cfg))
    /\ \A i \in 1..Len(steps) :
         /\ steps[i].step = Plan(cfg)[i]
         /\ steps[i].res # "ok" => i = Len(steps)
    /\ (pc = "inserted" /\ text # "" /\ \A i \in 1..Len(steps) : steps[i].res = "ok")
          => Len(steps) = Len(Plan(cfg))

-----------------------------------------------------------------------------
(* Claims about the recorder's result, checked under SpecAudio *)

\* C24: when stop() finds its copy of the Sample Buffer empty it returns
\* Ok with no bytes at all: not an error, and not the container of zero
\* samples, which would still hold a header.
C24_EmptyInEmptyOut ==
    [][(recPc = "stop_encode" /\ recPc' = "idle" /\ snap = <<>>)
         => /\ clip'.ok
            /\ clip'.data = <<>>
            /\ clip'.data # EncodeWav(<<>>)]_vars

\* C24 witness: a stop() of a started session has returned from an empty
\* copy.
C24_Witness ==
    /\ recPc = "idle" /\ sess >= 1 /\ clip.of = sess
    /\ snap = <<>> /\ ~armed
    /\ clip.ok /\ clip.data = <<>>

-----------------------------------------------------------------------------
(***************************************************************************)
(* stop() from its copy of the samples on, with the encoder in detail.     *)
(* A sample is an f32; the model takes the f32 values that are multiples   *)
(* of 2^-FracBits and writes n for n / 2^FracBits.  The product with       *)
(* i16::MAX is an f32 again: the exact product rounded to 24 significant   *)
(* bits, ties to even.  `as i16` drops the fraction and saturates.         *)
(***************************************************************************)
FracBits == 10
MaxClip == 3
I16Max == 32767
BitsPerSample == 16
F32Mantissa == 24

RECURSIVE Pow2(_)
Pow2(k) == IF k = 0 THEN 1 ELSE 2 * Pow2(k - 1)

RECURSIVE BitLen(_)
BitLen(m) == IF m = 0 THEN 0 ELSE 1 + BitLen(m \div 2)

Den == Pow2(FracBits)

\* The f32 nearest to m / Den for a magnitude m >= 0, as a multiple of 1 / Den.
RoundF32(m) ==
    LET k == BitLen(m) - F32Mantissa IN
    IF k <= 0
    THEN m
    ELSE LET q == m \div Pow2(k)
             r == m % Pow2(k)
             up == r > Pow2(k - 1) \/ (r = Pow2(k - 1) /\ q % 2 = 1)
         IN (IF up THEN q + 1 ELSE q) * Pow2(k)

\* The conversion as it would be if it rounded down instead of toward zero.
amplitudeFloor(n) ==
    LET p == RoundF32((IF n < 0 THEN -n ELSE n) * I16Max)
        t == p \div Den
        d == IF p % Den = 0 THEN t ELSE t + 1
    IN IF n >= 0
       THEN (IF t > I16Max THEN I16Max ELSE t)
       ELSE (IF d > I16Max + 1 THEN -(I16Max + 1) ELSE -d)

\* audio.rs:210: (sample * i16::MAX as f32) as i16.
amplitude(n) ==
    LET p == RoundF32((IF n < 0 THEN -n ELSE n) * I16Max)
        t == p \div Den
    IN IF n >= 0
       THEN (IF t > I16Max THEN I16Max ELSE t)
       ELSE (IF t > I16Max + 1 THEN -(I16Max + 1) ELSE -t)

\* The encoder as it would be if it wrote the samples last to first.
encode_wav_reversed(st, s) ==
    [channels |-> st.channels,
     sample_rate |-> st.sample_rate,
     bits_per_sample |-> BitsPerSample,
     data |-> [i \in 1..Len(s) |-> amplitude(s[Len(s) + 1 - i])]]

\* audio.rs:196-220: the container hound writes: the WavSpec in its header,
\* then one 16-bit integer per sample, in the order of the input.
encode_wav(st, s) ==
    [channels |-> st.channels,
     sample_rate |-> st.sample_rate,
     bits_per_sample |-> BitsPerSample,
     data |-> [i \in 1..Len(s) |-> amplitude(s[i])]]

\* audio.rs:185-193: what stop() returns for its copy s.  The writer's
\* calls can fail (context "failed to write sample", "failed to finalize
\* wav"); the error is passed on.
EncodeResults(st, s, session) ==
    IF s = <<>>
    THEN {[ok |-> TRUE, data |-> <<>>, of |-> session]}
    ELSE {[ok |-> TRUE, data |-> encode_wav(st, s), of |-> session],
          [ok |-> FALSE, data |-> <<>>, of |-> session]}

\* The samples tried one at a time: everything from -2.0 to 2.0.
SampleGrid == (-2 * Den)..(2 * Den)

\* The samples tried in longer clips.
Probes == {-Den, -1, 0, Den \div 2, Den}

Clips ==
    {<<>>} \cup {<<a>> : a \in SampleGrid}
           \cup UNION {[1..n -> Probes] : n \in 2..MaxClip}

\* stop() has made its copy (audio.rs:180-183) of a recording of session 1.
InitEncode ==
    /\ app = "tauri"
    /\ InitInput
    /\ running = TRUE
    /\ hasRecorder = TRUE
    /\ status = "Transcribing"
    /\ published = "Transcribing"
    /\ pubs = <<"Recording", "Transcribing">>
    /\ steps = <<>>
    /\ log = NoLog
    /\ logs = NoLogs
    /\ pc = "stop"
    /\ text = ""
    /\ reported = {}
    /\ handled = [ev |-> TriggerPressed, was |-> "Recording"]
    /\ listening = TRUE
    /\ config = NoRewrite
    /\ cfg = NoRewrite
    /\ calls = <<>>
    /\ armed = FALSE
    /\ snap \in Clips
    /\ samples = snap
    /\ lock = "none"
    /\ cbPc = "idle"
    /\ cbData = 0
    /\ recPc = "stop_encode"
    /\ clip = [ok |-> TRUE, data |-> <<>>, of |-> 0]
    /\ stream \in {BuiltStream(0, d) : d \in Devices}
    /\ sess = 1

\* audio.rs:185-193: the empty test, encode_wav, return.
StopEncode ==
    /\ recPc = "stop_encode"
    /\ clip' \in EncodeResults(stream, snap, sess)
    /\ recPc' = "idle"
    /\ UNCHANGED <<armed, samples, lock, cbPc, cbData, snap, stream, sess>>
    /\ UNCHANGED <<log, steps, app, logs, inputVars, loopVars>>

NextEncode == StopEncode

SpecEncode == InitEncode /\ [][NextEncode]_vars

\* stop() has returned a container.
Encoded == recPc = "idle" /\ snap # <<>> /\ clip.ok

\* C25: the container made from a non-empty clip declares the channel count
\* and the sample rate the recorder took from build_stream and 16 bits per
\* sample, and holds one value per input sample: its i-th value is the
\* 16-bit form of the i-th sample.
C25_EncodeRoundTrip ==
    Encoded =>
      /\ clip.data.channels = stream.channels
      /\ clip.data.sample_rate = stream.sample_rate
      /\ clip.data.bits_per_sample = 16
      /\ Len(clip.data.data) = Len(snap)
      /\ \A i \in 1..Len(snap) :
           /\ snap[i] = Den => clip.data.data[i] = I16Max
           /\ snap[i] = -Den => clip.data.data[i] = -I16Max
           /\ snap[i] = 0 => clip.data.data[i] = 0
           /\ snap[i] = -1 => clip.data.data[i] = -(I16Max \div Den)
           /\ snap[i] = Den \div 2 => clip.data.data[i] = I16Max \div 2

\* C25 witness: three different samples, 1.0, 0.0 and -1.0, came out in
\* that order.
C25_Witness ==
    /\ Encoded
    /\ snap = <<Den, 0, -Den>>
    /\ clip.data.data = <<I16Max, 0, -I16Max>>
    /\ clip.data.channels = 2 /\ clip.data.sample_rate = 44100

\* C26: a sample s with -1.0 <= s <= 1.0 is written as w, the f32 product
\* s * 32767 with its fraction dropped (toward zero); w lies in
\* -32767..32767 and differs from the exact s * 32767 by less than 1.
C26_Quantization ==
    Encoded =>
      \A i \in 1..Len(snap) :
        LET n == snap[i]
            w == clip.data.data[i]
            p == RoundF32((IF n < 0 THEN -n ELSE n) * I16Max)
        IN (-Den <= n /\ n <= Den) =>
             /\ -I16Max <= w /\ w <= I16Max
             /\ w * Den - n * I16Max < Den
             /\ n * I16Max - w * Den < Den
             /\ n >= 0 => (w * Den <= p /\ p < (w + 1) * Den)
             /\ n < 0 => (-w * Den <= p /\ p < (1 - w) * Den)

\* C26 witness: a negative sample whose product was rounded to 24 bits and
\* is no integer; the value written lies above the exact product.
C26_Witness ==
    /\ Encoded
    /\ Len(snap) = 1 /\ -Den < snap[1] /\ snap[1] < 0
    /\ BitLen(-snap[1] * I16Max) > F32Mantissa
    /\ clip.data.data[1] * Den > snap[1] * I16Max

-----------------------------------------------------------------------------
(***************************************************************************)
(* ElevenLabsClient::transcribe(), step by step.  calls[1] is the call of  *)
(* transcribe itself, with audio_data as its argument, and receives its    *)
(* result; cfg.language is the client's language; calls[2] is the HTTP     *)
(* request once it is sent, and receives the response.                     *)
(***************************************************************************)
Statuses == {200, 201, 301, 401, 500}

\* StatusCode::is_success(): 200..=299.
IsSuccess(code) == 200 <= code /\ code < 300

Bodies == {"{\"text\":\"hello world\"}", "{\"text\":\"\"}", "upstream error"}

\* serde_json::from_str::<TranscriptionResponse>, transcribe.rs:76-77.
ParseText(body) ==
    CASE body = "{\"text\":\"hello world\"}" -> [ok |-> TRUE, text |-> Transcript]
      [] body = "{\"text\":\"\"}" -> [ok |-> TRUE, text |-> ""]
      [] OTHER -> [ok |-> FALSE, text |-> ""]

\* What the server sent: the status, the body, and whether the body can be
\* read to its end.
Responses == [got : {"response"}, status : Statuses, body : Bodies, readable : BOOLEAN]

\* The request before it is answered ("pending") and after send() failed.
NoResponse(why) == [got |-> why, status |-> 0, body |-> "-", readable |-> FALSE]

\* The multipart form, transcribe.rs:44-55; language_code only when the
\* language is not "auto".
Form(data, language) ==
    [model_id |-> "scribe_v1", file |-> data,
     language_code |-> IF language # "auto" THEN language ELSE "-"]

TrOk(t) == [ok |-> TRUE, text |-> t, kind |-> "-", status |-> 0, body |-> "-"]
TrErr(kind, code, body) ==
    [ok |-> FALSE, text |-> "-", kind |-> kind, status |-> code, body |-> body]

transcribeFrame ==
    <<log, steps, app, logs, inputVars, running, hasRecorder, status, published, pubs,
      reported, handled, listening, config, cfg, audioVars>>

\* transcribe.rs:33-35: an empty clip: Ok(String::new()) at once.
TrEmpty ==
    /\ pc = "transcribe"
    /\ calls[1].arg = <<>>
    /\ calls' = [calls EXCEPT ![1].res = TrOk("")]
    /\ text' = ""
    /\ pc' = "transcribed"
    /\ UNCHANGED transcribeFrame

\* transcribe.rs:44-63: the form is built and the request is sent.
TrSend ==
    /\ pc = "transcribe"
    /\ calls[1].arg # <<>>
    /\ calls' = Append(calls, [Call("POST", Form(calls[1].arg, cfg.language), "-")
                                 EXCEPT !.res = NoResponse("pending")])
    /\ pc' = "tr_await"
    /\ UNCHANGED text
    /\ UNCHANGED transcribeFrame

\* transcribe.rs:64-65: send() fails (no connection, the 30 s timeout).
TrSendFailed ==
    /\ pc = "tr_await"
    /\ calls' = [calls EXCEPT ![1].res = TrErr("send", 0, "-"), ![2].res = NoResponse("failed")]
    /\ pc' = "transcribed"
    /\ UNCHANGED text
    /\ UNCHANGED transcribeFrame

\* transcribe.rs:64-66: the response head arrives.
TrResponse ==
    /\ pc = "tr_await"
    /\ \E r \in Responses : calls' = [calls EXCEPT ![2].res = r]
    /\ pc' = "tr_status"
    /\ UNCHANGED text
    /\ UNCHANGED transcribeFrame

\* The rest of transcribe() as it would be if it parsed the body whatever
\* the status.
TrStatusNoStatusTest ==
    /\ pc = "tr_status"
    /\ LET r == calls[2].res
           parsed == ParseText(r.body)
           res == IF ~r.readable THEN TrErr("body", 0, "-")
                  ELSE IF ~parsed.ok THEN TrErr("parse", 0, "-")
                  ELSE TrOk(parsed.text)
       IN /\ calls' = [calls EXCEPT ![1].res = res]
          /\ text' = IF res.ok THEN res.text ELSE text
    /\ pc' = "transcribed"
    /\ UNCHANGED transcribeFrame

\* transcribe.rs:68-82: a status outside 2xx bails with the status and the
\* body text (empty when the body cannot be read: unwrap_or_default);
\* otherwise the body is read and parsed, each with `?`.
TrStatus ==
    /\ pc = "tr_status"
    /\ LET r == calls[2].res
           parsed == ParseText(r.body)
           res == IF ~IsSuccess(r.status)
                  THEN TrErr("api", r.status, IF r.readable THEN r.body ELSE "")
                  ELSE IF ~r.readable THEN TrErr("body", 0, "-")
                  ELSE IF ~parsed.ok THEN TrErr("parse", 0, "-")
                  ELSE TrOk(parsed.text)
       IN /\ calls' = [calls EXCEPT ![1].res = res]
          /\ text' = IF res.ok THEN res.text ELSE text
    /\ pc' = "transcribed"
    /\ UNCHANGED transcribeFrame

\* transcribe() is entered with an empty or a non-empty clip, by a client
\* built with any settings (lib.rs:291-294).
InitTranscribe ==
    /\ app = "tauri"
    /\ InitInput
    /\ InitAudio
    /\ running = TRUE
    /\ hasRecorder = TRUE
    /\ status = "Transcribing"
    /\ published = "Transcribing"
    /\ pubs = <<"Recording", "Transcribing">>
    /\ steps = <<>>
    /\ log = NoLog
    /\ logs = NoLogs
    /\ pc = "transcribe"
    /\ text = ""
    /\ reported = {}
    /\ handled = [ev |-> TriggerPressed, was |-> "Recording"]
    /\ listening = TRUE
    /\ config \in Configs
    /\ cfg = config
    /\ \E data \in {<<>>, EncodeWav(<<1>>)} :
         calls = <<Call("transcribe", data, cfg.language)>>

NextTranscribe == TrEmpty \/ TrSend \/ TrSendFailed \/ TrResponse \/ TrStatus

SpecTranscribe == InitTranscribe /\ [][NextTranscribe]_vars

\* transcribe() has returned.
Transcribed == pc = "transcribed"

\* C27: transcribe() of an empty clip returns Ok with an empty text and
\* sends no request; when a request was sent and answered with a status
\* outside 2xx, whatever the body, the result is an error that holds that
\* status and the body text as far as it could be read, never a text.
C27_TranscribeOutcomes ==
    /\ calls[1].arg = <<>> => Len(calls) = 1
    /\ (Transcribed /\ calls[1].arg = <<>>)
          => calls[1].res = TrOk("") /\ text = ""
    /\ (Transcribed /\ Len(calls) = 2 /\ calls[2].res.got = "response"
          /\ (calls[2].res.status < 200 \/ calls[2].res.status > 299))
          => /\ ~calls[1].res.ok
             /\ calls[1].res.status = calls[2].res.status
             /\ calls[1].res.body =
                  (IF calls[2].res.readable THEN calls[2].res.body ELSE "")
             /\ text = ""

\* C27 witness: the server answered 401 with a body that parses as a
\* transcript; transcribe() returned the error with 401 and that body.
C27_Witness ==
    /\ Transcribed
    /\ Len(calls) = 2
    /\ calls[2].res = [got |-> "response", status |-> 401,
                       body |-> "{\"text\":\"hello world\"}", readable |-> TRUE]
    /\ calls[1].res = TrErr("api", 401, "{\"text\":\"hello world\"}")

-----------------------------------------------------------------------------
(* Claims about what the loop's handlers touch, checked under Spec *)

\* The step in which the loop receives an event, whichever it is.
PoppedAny == pc = "poll" /\ queue # <<>> /\ queue' = Tail(queue)

StartPair == [ev |-> TriggerPressed, was |-> "Idle"]
StopPair == [ev |-> StopTrigger, was |-> "Recording"]

\* C28: the recorder is armed only in the step that handles a
\* TriggerPressed met in Idle; it is disarmed, a clip is returned and the
\* calls to transcribe, rewrite and insert are made only by the handling of
\* the stop trigger met in Recording; the handling of any other event,
\* whatever the state, changes neither the Session State nor Armed nor the
\* Sample Buffer.
C28_StateGating ==
    /\ [][(~armed /\ armed') => (PoppedAny /\ handled' = StartPair)]_vars
    /\ [][((armed /\ ~armed') \/ clip' # clip)
            => (PoppedAny /\ handled' = StopPair)]_vars
    /\ [][(calls' # calls /\ calls' # <<>>) => handled' = StopPair]_vars
    /\ [](Busy => handled = StopPair)
    /\ [][(PoppedAny /\ handled' # StartPair /\ handled' # StopPair)
            => UNCHANGED <<status, armed, samples>>]_vars

\* C28 witness: the loop has just met a TriggerReleased in Recording in the
\* front end where that is no stop trigger; the recording goes on with its
\* samples.
C28_Witness ==
    /\ app = "tauri"
    /\ handled = [ev |-> TriggerReleased, was |-> "Recording"]
    /\ pc = "poll" /\ status = "Recording" /\ armed /\ samples # <<>>

-----------------------------------------------------------------------------
(***************************************************************************)
(* The three threads around the shared control state: the listener, the   *)
(* control loop with its handlers, the audio callback, which here may     *)
(* deliver up to MaxBuffered buffers into one recording.                   *)
(***************************************************************************)
InitShared == Init /\ hasRecorder /\ listening /\ config = NoRewrite

NextShared ==
    \/ ListenRdev \/ ListenCg
    \/ Handle \/ PollEmpty
    \/ TranscribeReturn \/ InsertReturn
    \/ CbTestMore \/ CbAppend

SpecShared == InitShared /\ [][NextShared]_vars

\* A step of the listener thread: its latches or its histories change, or
\* it sends an event.
ListenerStep ==
    \/ <<is_pressed, IS_PRESSED, RIGHT_OPT_PRESSED, gest, activations>>'
         # <<is_pressed, IS_PRESSED, RIGHT_OPT_PRESSED, gest, activations>>
    \/ Len(queue') > Len(queue)

\* A step of the audio callback.
CallbackStep == cbPc' # cbPc

\* A step of the control loop: it receives an event, or a call of the round
\* trip returns.
LoopStep == PoppedAny \/ Busy

-----------------------------------------------------------------------------
(***************************************************************************)
(* The channel between the listener and the control loop, with its        *)
(* history: up to MaxSent events are sent, up to MaxBacklog wait.  The     *)
(* listener may have failed at startup: nothing is ever sent then, and in  *)
(* main the sender is gone with the thread.                                *)
(***************************************************************************)
InitQueue ==
    /\ app \in {"cli", "tauri"}
    /\ InitInput
    /\ InitAudio
    /\ running = TRUE
    /\ hasRecorder = TRUE
    /\ status = "Idle"
    /\ published = "Idle"
    /\ pubs = <<"Idle">>
    /\ steps = <<>>
    /\ log = [on |-> TRUE, sent |-> <<>>, got |-> <<>>]
    /\ logs = NoLogs
    /\ pc = "poll"
    /\ text = ""
    /\ reported = {}
    /\ handled = [ev |-> "none", was |-> "Idle"]
    /\ listening \in BOOLEAN
    /\ config = NoRewrite
    /\ cfg = NoRewrite
    /\ calls = <<>>

NextQueue ==
    \/ ListenRdev \/ ListenCg
    \/ Handle \/ PollEmpty
    \/ TranscribeReturn \/ InsertReturn
    \/ CbTest \/ CbAppend

SpecQueue == InitQueue /\ [][NextQueue]_vars

\* C30: what the loop has received so far, followed by what waits in the
\* channel, is exactly what the listener has sent so far: every event is
\* received once, in the order of sending.  A step takes at most one event
\* out of the channel and the loop handles the event it took; with nothing
\* in the channel the loop receives nothing and stays at its poll.
C30_QueueConsumption ==
    /\ [](log.got \o queue = log.sent)
    /\ [][/\ Len(queue') >= Len(queue) - 1
          /\ Len(log.got') <= Len(log.got) + 1
          /\ log.got' # log.got =>
               (queue' = Tail(queue) /\ handled'.ev = Head(queue).ev)]_vars
    /\ [][(pc = "poll" /\ queue = <<>>)
            => (log.got' = log.got /\ pc' = "poll")]_vars

\* C30 witness: two events have been received and two more wait behind
\* them.
C30_Witness ==
    /\ Len(log.got) = 2 /\ Len(queue) = 2
    /\ log.sent = log.got \o queue
    /\ pc = "poll"

-----------------------------------------------------------------------------
(***************************************************************************)
(* Shutdown.  The loop's iteration is taken in two steps here: the test   *)
(* of `running` (the while condition) and then try_recv(); handled.ev =   *)
(* "tested" between the two.  In main the ctrl-c handler stores false     *)
(* into `running` from its own thread at any moment; run_input_loop's     *)
(* flag is never stored to.  The loop's thread keeps running and the      *)
(* calls of the round trip return.                                         *)
(***************************************************************************)
InitShutdown == InitQueue /\ listening

\* The while condition as it would be if it did not look at the flag.
LoopTestIgnoresFlag ==
    /\ pc = "poll"
    /\ handled.ev # "tested"
    /\ handled' = [ev |-> "tested", was |-> status]
    /\ UNCHANGED pc
    /\ UNCHANGED <<log, steps, app, logs, inputVars, running, hasRecorder, status,
                   published, pubs, text, reported, listening, config, cfg,
                   calls, audioVars>>

\* main.rs:108, lib.rs:259: while running.load(SeqCst).
LoopTest ==
    /\ pc = "poll"
    /\ handled.ev # "tested"
    /\ IF running
       THEN handled' = [ev |-> "tested", was |-> status] /\ UNCHANGED pc
       ELSE pc' = "exit" /\ UNCHANGED handled
    /\ UNCHANGED <<log, steps, app, logs, inputVars, running, hasRecorder, status,
                   published, pubs, text, reported, listening, config, cfg,
                   calls, audioVars>>

\* main.rs:110, lib.rs:260: try_recv() after the test, with an event.
IterReceived == handled.ev = "tested" /\ Received

\* main.rs:110 and 197-200, lib.rs:260 and 354: try_recv() after the test,
\* with nothing; the loop sleeps 1 ms.
IterEmpty ==
    /\ pc = "poll"
    /\ handled.ev = "tested"
    /\ queue = <<>>
    /\ handled' = [ev |-> "empty", was |-> status]
    /\ UNCHANGED <<log, steps, app, logs, inputVars, running, hasRecorder, status,
                   published, pubs, pc, text, reported, listening, config,
                   cfg, calls, audioVars>>

\* main.rs:43-46: the ctrl-c handler.
CtrlC ==
    /\ app = "cli"
    /\ pc # "exit"
    /\ running
    /\ running' = FALSE
    /\ UNCHANGED <<log, steps, app, logs, inputVars, hasRecorder, status, published,
                   pubs, pc, text, reported, handled, listening, config, cfg,
                   calls, audioVars>>

NextShutdown ==
    \/ ListenRdev \/ ListenCg
    \/ LoopTest \/ IterReceived \/ IterEmpty
    \/ TranscribeReturn \/ InsertReturn
    \/ CbTest \/ CbAppend
    \/ CtrlC

SpecShutdown ==
    /\ InitShutdown
    /\ [][NextShutdown]_vars
    /\ WF_vars(LoopTest)
    /\ WF_vars(IterReceived)
    /\ WF_vars(IterEmpty)
    /\ WF_vars(TranscribeReturn)
    /\ WF_vars(InsertReturn)

\* C31 as stated: once `running` is false and the loop is not inside the
\* handling of an event, no further event is taken from the queue.
C31_Original ==
    [][~running => ~PoppedAny]_vars

\* C31 amended: an event is received with `running` false only by the
\* iteration that had tested the flag before it was stored to; every test
\* that finds it false leaves the loop, which then handles nothing more;
\* and once the flag is false the loop does end.
C31_ShutdownExits ==
    /\ [][(~running /\ PoppedAny) => handled.ev = "tested"]_vars
    /\ [][(~running /\ pc = "poll" /\ handled.ev # "tested" /\ handled' # handled)
            => FALSE]_vars
    /\ [][pc = "exit" => (pc' = "exit" /\ log.got' = log.got)]_vars
    /\ [](pc = "exit" => ~running)
    /\ (~running ~> pc = "exit")

\* C31 witness: the loop has ended after ctrl-c with an event still in the
\* queue, the cycle that was in progress having returned to Idle.
C31_Witness ==
    /\ pc = "exit" /\ ~running
    /\ queue # <<>>
    /\ status = "Idle" /\ calls # <<>>

-----------------------------------------------------------------------------
(***************************************************************************)
(* Events sent during a round trip.  As SpecQueue, with a rewrite call in *)
(* the round trip when the settings ask for one.                           *)
(***************************************************************************)
DeferConfigs == {c \in Configs : c.auto_enter /\ c.language = "auto"
                                  /\ (c.translate => c.key)
                                  /\ (c.cleanup => c.key)}

InitDeferred ==
    /\ app \in {"cli", "tauri"}
    /\ InitInput
    /\ InitAudio
    /\ running = TRUE
    /\ hasRecorder = TRUE
    /\ status = "Idle"
    /\ published = "Idle"
    /\ pubs = <<"Idle">>
    /\ steps = <<>>
    /\ log = [on |-> TRUE, sent |-> <<>>, got |-> <<>>]
    /\ logs = NoLogs
    /\ pc = "poll"
    /\ text = ""
    /\ reported = {}
    /\ handled = [ev |-> "none", was |-> "Idle"]
    /\ listening = TRUE
    /\ config \in DeferConfigs
    /\ cfg = config
    /\ calls = <<>>

NextDeferred ==
    \/ ListenRdev \/ ListenCg
    \/ Handle \/ PollEmpty
    \/ TranscribeReturn \/ RewriteReturn \/ InsertReturn
    \/ CbTest \/ CbAppend

SpecDeferred == InitDeferred /\ [][NextDeferred]_vars

\* A listener step that puts an event into the channel.
SendStep == (ListenRdev \/ ListenCg) /\ Len(queue') > Len(queue)

\* The channel has room in the model (the mpsc channel itself always has).
Room == Len(queue) < QueueCap /\ Len(log.sent) < MaxSent

C33_ArmedTracksRecording ==
    pc = "poll" => (armed <=> status = "Recording")

\* C33 witness: the loop polls in Idle, disarmed, after a cycle in which it
\* had polled armed in Recording.
C33_Witness ==
    /\ pc = "poll" /\ status = "Idle" /\ ~armed
    /\ handled.was = "Recording" /\ handled.ev = StopTrigger

\* C34: a start() that finds Armed true returns Ok without a step that
\* changes Armed, the Sample Buffer, the lock or the stream: in between the
\* buffer changes only by the audio callback; and the buffer is cleared only
\* by the start() that found Armed false, which is still false at the clear.
C34_StartWhileArmed ==
    /\ [][(recPc = "idle" /\ armed /\ recPc' # "idle" /\ ~SetDeviceStep
             /\ recPc' # "stop_lock")
            => (recPc' = "start_ret" /\ UNCHANGED <<armed, samples, lock, stream, sess>>)]_vars
    /\ [][recPc = "start_ret"
            => /\ armed' = armed
               /\ recPc' \in {"start_ret", "idle"}
               /\ (samples' # samples => CallbackStep)]_vars
    /\ [](recPc = "start_ret" => armed)
    /\ [][Len(samples') < Len(samples)
            => (recPc = "start_clear" /\ ~armed /\ samples' = <<>>)]_vars

\* C34 witness: start() has found Armed true with samples in the buffer.
C34_Witness ==
    /\ recPc = "start_ret"
    /\ armed
    /\ samples # <<>>

\* C35: the calls of one cycle hold at most one rewrite call; with translate,
\* cleanup and a key it is the translate call and no cleanup call is made;
\* with no rewrite key there is no rewrite call, whatever translate and
\* cleanup say, and the transcript goes to insert as the service returned it.
C35_OneRewriteTranslateFirst ==
    /\ [](CallsTo("translate") + CallsTo("cleanup") <= 1)
    /\ []((Busy /\ cfg.translate /\ cfg.cleanup) => CallsTo("cleanup") = 0)
    /\ []((Busy /\ cfg.translate /\ cfg.cleanup /\ cfg.key /\ Len(calls) >= 2)
            => calls[2].op = "translate")
    /\ []((Busy /\ ~cfg.key)
            => (CallsTo("translate") = 0 /\ CallsTo("cleanup") = 0))
    /\ [][(pc = "transcribe" /\ ~cfg.key /\ GotTranscript')
            => (pc' = "insert" /\ calls'[2].op = "insert"
                /\ calls'[2].arg = Transcript /\ text' = Transcript)]_vars

\* C35 witness: with translate, cleanup and a key, translate has returned
\* and its text is being inserted, as the third and last call of the cycle.
C35_Witness ==
    /\ pc = "insert"
    /\ cfg.translate /\ cfg.cleanup /\ cfg.key
    /\ Len(calls) = 3
    /\ calls[2].op = "translate" /\ calls[2].res = "ok"
    /\ calls[3].op = "insert" /\ calls[3].arg = Rewritten

\* C36: when build_stream fails, set_device() returns the error with the
\* stream handle, sample rate and channel count it had, without a step that
\* changes the Sample Buffer, and with Armed false: false from the call's
\* first statement on, whatever it was before, and still false at the return.
C36_SetDeviceFailure ==
    /\ [][(recPc = "setdev_build" /\ recPc' = "setdev_err")
            => (~armed /\ UNCHANGED <<armed, stream, samples, lock>>)]_vars
    /\ [][(recPc = "setdev_err" /\ recPc' # recPc)
            => (recPc' = "idle" /\ ~armed' /\ UNCHANGED <<stream, samples, lock>>)]_vars
    /\ [](recPc \in {"setdev_build", "setdev_err"} => ~armed)
    /\ [][(recPc \in {"setdev_build", "setdev_err"} /\ samples' # samples)
            => CallbackStep]_vars
    /\ [][(recPc = "setdev_err" /\ recPc' = recPc) => stream' = stream]_vars

\* C36 witness: set_device() has failed in the middle of a session: the
\* session was never stopped, samples are in the buffer, the first stream is
\* still in place and Armed is false.
C36_Witness ==
    /\ recPc = "setdev_err"
    /\ sess >= 1 /\ clip.of < sess
    /\ samples # <<>>
    /\ stream.gen = 0
    /\ ~armed

-----------------------------------------------------------------------------
(***************************************************************************)
(* TextCleaner::cleanup(), src/src/cleanup.rs, step by step, from the      *)
(* transcript the loop got to the insert() of what cleanup returned.       *)
(* `text` is the transcript and then the final text, calls[1] the cleanup  *)
(* call with its outcome, `steps` the HTTP exchange and then the steps of  *)
(* insert().  run_input_loop calls a TextCleaner of the same name; the     *)
(* steps here are those of src/src/cleanup.rs for both front ends.         *)
(***************************************************************************)
Blank == " "
BlankLines == " \n"

\* The characters of the texts of this specification.
TextChars(t) ==
    CASE t = "" -> <<>>
      [] t = Blank -> <<" ">>
      [] t = BlankLines -> <<" ", "\n">>
      [] t = Transcript -> <<"h", "e", "l", "l", "o", " ", "w", "o", "r", "l", "d">>
      [] t = Rewritten -> <<"H", "e", "l", "l", "o", ",", " ", "w", "o", "r", "l", "d", ".">>

IsWhitespace(c) == c \in {" ", "\t", "\n", "\r"}

RECURSIVE TrimStart(_)
TrimStart(s) ==
    IF s # <<>> /\ IsWhitespace(Head(s)) THEN TrimStart(Tail(s)) ELSE s

RECURSIVE TrimEnd(_)
TrimEnd(s) ==
    IF s # <<>> /\ IsWhitespace(s[Len(s)])
    THEN TrimEnd(SubSeq(s, 1, Len(s) - 1))
    ELSE s

\* str::trim
Trim(s) == TrimEnd(TrimStart(s))

\* cleanup.rs:45: raw_text.trim().is_empty()
TrimIsEmpty(t) == Trim(TextChars(t)) = <<>>

CleanTexts == {"", Blank, BlankLines, Transcript}

InitCleanup ==
    /\ app \in {"cli", "tauri"}
    /\ InitInput
    /\ InitAudio
    /\ running = TRUE
    /\ hasRecorder = TRUE
    /\ status = (IF app = "tauri" THEN "Transcribing" ELSE "Recording")
    /\ published = "Transcribing"
    /\ pubs = <<"Recording", "Transcribing">>
    /\ pc = "transcribed"
    /\ text \in CleanTexts
    /\ reported = {}
    /\ handled = [ev |-> "none", was |-> "Recording"]
    /\ listening = TRUE
    /\ config \in {c \in Configs : c.cleanup /\ c.key /\ ~c.translate /\ c.language = "auto"}
    /\ cfg = config
    /\ calls = <<>>
    /\ steps = <<>>
    /\ log = NoLog
    /\ logs = NoLogs

cleanFrame ==
    <<log, app, logs, inputVars, running, hasRecorder, status, published, pubs,
      handled, listening, config, cfg, audioVars>>

\* lib.rs:306-313 and 328-331, main.rs:137-151: an empty transcript is
\* reported and goes nowhere; any other goes to cleanup.
OnTranscript ==
    /\ pc = "transcribed"
    /\ IF text = ""
       THEN /\ pc' = "inserted"
            /\ reported' = reported \cup {"empty"}
            /\ UNCHANGED calls
       ELSE /\ pc' = "cleanup"
            /\ calls' = <<Call("cleanup", text, "-")>>
            /\ UNCHANGED reported
    /\ UNCHANGED <<text, steps>>
    /\ UNCHANGED cleanFrame

\* cleanup as it would be without the trim().is_empty() test answering for
\* itself: the text comes back as it is.
ClBlankReturnsRaw ==
    /\ pc = "cleanup"
    /\ TrimIsEmpty(text)
    /\ calls' = Returned(calls, "raw")
    /\ pc' = "cleaned"
    /\ UNCHANGED <<text, steps, reported>>
    /\ UNCHANGED cleanFrame

\* cleanup.rs:45-47: only whitespace, Ok(String::new()) at once.
ClBlank ==
    /\ pc = "cleanup"
    /\ TrimIsEmpty(text)
    /\ calls' = Returned(calls, "empty")
    /\ pc' = "cleaned"
    /\ UNCHANGED <<text, steps, reported>>
    /\ UNCHANGED cleanFrame

\* cleanup.rs:62-71: the request is sent; a send error is the Err of cleanup.
ClSend ==
    /\ pc = "cleanup"
    /\ ~TrimIsEmpty(text)
    /\ \E out \in {"ok", "err"} :
         /\ steps' = Append(steps, Step("post", out, <<>>))
         /\ IF out = "ok"
            THEN pc' = "cl_status" /\ UNCHANGED calls
            ELSE pc' = "cleaned" /\ calls' = Returned(calls, "err")
    /\ UNCHANGED <<text, reported>>
    /\ UNCHANGED cleanFrame

\* cleanup.rs:73-78: a status that is not a success, Ok(raw_text).
ClStatus ==
    /\ pc = "cl_status"
    /\ \E code \in Statuses :
         /\ steps' = Append(steps, Step("status", "ok", <<code>>))
         /\ IF IsSuccess(code)
            THEN pc' = "cl_parse" /\ UNCHANGED calls
            ELSE pc' = "cleaned" /\ calls' = Returned(calls, "raw")
    /\ UNCHANGED <<text, reported>>
    /\ UNCHANGED cleanFrame

\* cleanup.rs:80-93: the body does not parse (Err), has no content block
\* (the raw text), or its first block's text is returned, empty or not.
ClParse ==
    /\ pc = "cl_parse"
    /\ \E res \in RewriteResults :
         /\ steps' = Append(steps, Step("body", res, <<>>))
         /\ calls' = Returned(calls, res)
    /\ pc' = "cleaned"
    /\ UNCHANGED <<text, reported>>
    /\ UNCHANGED cleanFrame

\* lib.rs:313-323, main.rs:150-164: Ok(t) is the final text, Err leaves the
\* transcript; insert is called with it.
OnCleaned ==
    /\ pc = "cleaned"
    /\ text' = FinalText(calls[1].res, text)
    /\ calls' = Append(calls, Call("insert", text', EnterMode(cfg)))
    /\ reported' = IF calls[1].res = "err" /\ app = "cli"
                   THEN reported \cup {"rewrite"} ELSE reported
    /\ pc' = "insert"
    /\ UNCHANGED steps
    /\ UNCHANGED cleanFrame

NextCleanup ==
    \/ OnTranscript
    \/ ClBlank \/ ClSend \/ ClStatus \/ ClParse
    \/ OnCleaned
    \/ InsEmpty \/ InsClipboard \/ InsPaste \/ InsEnter

SpecCleanup == InitCleanup /\ [][NextCleanup]_vars

\* The HTTP statuses cleanup has seen.
SeenStatus == {steps[i].sent[1] : i \in {j \in 1..Len(steps) : steps[j].step = "status"}}

\* C37: cleanup answers a status that is not a success with the raw text,
\* and insert then gets that text; it answers a text of whitespace only
\* with the empty text and sends nothing; and then insert is called with
\* the empty text and makes no step: nothing is written to the clipboard
\* and no key is posted.
C37_CleanupOutcomes ==
    /\ (\E code \in SeenStatus : code < 200 \/ code > 299)
          => /\ calls[1].res = "raw"
             /\ Len(calls) = 2 => (calls[2].arg = calls[1].arg /\ text = calls[1].arg)
    /\ (calls # <<>> /\ calls[1].res # "pending"
          /\ calls[1].arg \in {Blank, BlankLines})
          => /\ calls[1].res = "empty"
             /\ steps = <<>>
             /\ Len(calls) = 2 => calls[2] = Call("insert", "", EnterMode(cfg))
    /\ pc = "cleanup" => (calls[1].arg # "" /\ steps = <<>>)

\* C37 witness: insert has returned from the empty text that cleanup made
\* of a transcript of a blank and a newline; nothing was sent or injected.
C37_Witness ==
    /\ pc = "inserted"
    /\ Len(calls) = 2
    /\ calls[1] = [op |-> "cleanup", arg |-> BlankLines, set |-> "-", res |-> "empty"]
    /\ calls[2].op = "insert" /\ calls[2].arg = ""
    /\ text = ""
    /\ steps = <<>>

-----------------------------------------------------------------------------
(***************************************************************************)
(* save_config, with both outcomes of Config::save.  steps holds the last  *)
(* command: the configuration it was given and what it returned.           *)
(***************************************************************************)
InitSave == InitSettings

SaveCommand ==
    /\ \E c \in Configs, saved \in BOOLEAN :
         /\ SaveConfigTo(c, saved)
         /\ steps' = <<Step("save_config", IF saved THEN "ok" ELSE "err", <<c>>)>>
    /\ UNCHANGED <<log, app, logs, inputVars, running, hasRecorder, status, published,
                   pubs, pc, text, reported, handled, listening, cfg, calls,
                   audioVars>>

NextSave == SaveCommand

SpecSave == InitSave /\ [][NextSave]_vars

\* C38: a save_config that returns the error leaves the shared configuration
\* as it was; the shared configuration changes only in a save_config that
\* returns Ok, and becomes the configuration that command was given.
C38_SaveAllOrNothing ==
    [][/\ (steps' # <<>> /\ steps'[1].res = "err") => config' = config
       /\ config' # config =>
            (steps' # <<>> /\ steps'[1].res = "ok" /\ config' = steps'[1].sent[1])
       /\ (steps' # <<>> /\ steps'[1].res = "ok") => config' = steps'[1].sent[1]]_vars

\* C38 witness: the last save_config failed, and the shared configuration is
\* not the one it was given.
C38_Witness ==
    /\ steps # <<>>
    /\ steps[1].step = "save_config" /\ steps[1].res = "err"
    /\ steps[1].sent[1] # config

-----------------------------------------------------------------------------
(***************************************************************************)
(* The UI log, lib.rs:50-64 and 109-112.  add_log holds the mutex from its *)
(* first statement to its return; get_logs takes the same mutex, so it     *)
(* runs between two add_log calls.                                         *)
(***************************************************************************)
LogCap == 100

InitLog == InitSettings /\ config = NoRewrite

logFrame == <<log, steps, app, inputVars, loopVars, audioVars>>

\* lib.rs:52-58: lock, push_back.
AddLogPush ==
    /\ logs.pc = "idle"
    /\ logs.added < MaxLogged
    /\ logs' = [logs EXCEPT !.q = Append(@, logs.added + 1),
                            !.added = @ + 1,
                            !.pc = "trim"]
    /\ UNCHANGED logFrame

\* The trimming as it would be with pop_back.
AddLogPopBack ==
    /\ logs.pc = "trim"
    /\ Len(logs.q) > LogCap
    /\ logs' = [logs EXCEPT !.q = SubSeq(@, 1, Len(@) - 1)]
    /\ UNCHANGED logFrame

\* lib.rs:60-62: while logs.len() > 100 { logs.pop_front(); }
AddLogPop ==
    /\ logs.pc = "trim"
    /\ Len(logs.q) > LogCap
    /\ logs' = [logs EXCEPT !.q = Tail(@)]
    /\ UNCHANGED logFrame

\* lib.rs:60 and 63: the loop test fails, the guard is dropped.
AddLogReturn ==
    /\ logs.pc = "trim"
    /\ Len(logs.q) <= LogCap
    /\ logs' = [logs EXCEPT !.pc = "idle"]
    /\ UNCHANGED logFrame

\* lib.rs:109-112: get_logs, a copy of the deque taken under the mutex.
GetLogs ==
    /\ logs.pc = "idle"
    /\ logs' = [logs EXCEPT !.got = logs.q]
    /\ UNCHANGED logFrame

NextLog == AddLogPush \/ AddLogPop \/ AddLogReturn \/ GetLogs

SpecLog == InitLog /\ [][NextLog]_vars

\* The last k of the first n entries added, oldest first.
LastAdded(n, k) == [i \in 1..k |-> n - k + i]

Fewest(a, b) == IF a <= b THEN a ELSE b

\* Entries next to each other were added one after the other.
InOrder(q) == \A i \in 1..(Len(q) - 1) : q[i + 1] = q[i] + 1

\* C39: between add_log calls the log holds the last 100 entries added, or
\* all of them when fewer were added, oldest first; what get_logs returns
\* has at most 100 entries, in the order they were added with none missing
\* in between, and starts with the first entry ever added unless it is full.
C39_BoundedLog ==
    /\ logs.pc = "idle" =>
         /\ Len(logs.q) <= LogCap
         /\ logs.q = LastAdded(logs.added, Fewest(logs.added, LogCap))
    /\ Len(logs.got) <= LogCap
    /\ InOrder(logs.got)
    /\ logs.got # <<>> =>
         /\ logs.got[1] = 1 \/ Len(logs.got) = LogCap
         /\ logs.got[Len(logs.got)] <= logs.added

\* C39 witness: 102 entries were added and get_logs returned entries 3 to
\* 102.
C39_Witness ==
    /\ logs.added = LogCap + 2
    /\ logs.pc = "idle"
    /\ logs.got = logs.q
    /\ Len(logs.got) = LogCap
    /\ logs.got[1] = 3 /\ logs.got[LogCap] = LogCap + 2

====
